---------------------------- MODULE Spec2Model ----------------------------
(***************************************************************************)
(* Authentication and session lifecycle of the go-fiber todo API:          *)
(* services.AuthService (Register, Login, LoginByEmail, RefreshToken,      *)
(* Logout, ValidateAccessToken) over the credential store (users table),   *)
(* the Redis session store and the HS256 token codec.                      *)
(*                                                                         *)
(* Time is counted in ticks, TicksPerSec ticks to the second, so that the  *)
(* whole-second truncation of the exp / iat claims (time.Time.Unix) is     *)
(* visible next to the full-precision time.Now() the code compares with.   *)
(* Durations of the configuration are scaled down to a few ticks.          *)
(* ULIDs (user ids, session ids) are drawn from counters: each new id is   *)
(* one that was never handed out before; 0 stands for the empty string.    *)
(***************************************************************************)
EXTENDS Integers, Sequences, FiniteSets, TLC

----------------------------------------------------------------------------
\* Bounds of the model
MaxTime == 4
MaxUsers == 2
MaxSessions == 2
TicksPerSec == 2
MaxTodos == 2

\* JWTConfig
AccessExpiry == 1 * TicksPerSec
RefreshExpiry == 2 * TicksPerSec
Secret == "secret"
Issuer == "go-fiber"

\* Request inputs
Usernames == {"alice", "bob"}
Emails == {"", "a@x.io"}
Passwords == {"pw1", "pw2"}
Workers == {"w1", "w2"}

\* The ULIDs that can be handed out
UserIDs == 1..MaxUsers
SessionIDs == 1..MaxSessions

TokenTypeAccess == "access"
TokenTypeRefresh == "refresh"

VARIABLES
  users,        \* rows of the users table
  nextUserID,   \* next ULID of a user row
  sessions,     \* Redis keys "session:<id>": session id -> stored session
  nextSessionID,\* next ULID of a session
  now,          \* wall clock, in ticks
  issued,       \* tokens handed to clients by successful logins
  revoked,      \* session ids whose key a Logout or DeleteUserSessions has deleted
  last,         \* the handler call completed last and what it returned
  reg,          \* per worker: the Register call it is in the middle of
  run,          \* per worker: the RefreshToken or Logout call it is in the middle of
  bcryptCost,   \* AuthService.bcryptCost
  todos,        \* rows of the todos table
  nextTodoID,   \* next id of a todo row
  resp          \* the HTTP request answered last and its response

vars == <<users, nextUserID, sessions, nextSessionID, now, issued, revoked, last, reg, run, bcryptCost, todos, nextTodoID, resp>>

----------------------------------------------------------------------------
\* time.Time.Unix(): whole seconds
Unix(t) == t \div TicksPerSec

\* The instant, in ticks, of a whole-second Unix timestamp
FromUnix(s) == s * TicksPerSec

----------------------------------------------------------------------------
\* Token strings.  A compact JWS is modelled by what it decodes to: its
\* form (the empty string, a string that is no JWS, or a JWS), the alg of
\* its header, the key its signature was made with, and its payload.
EmptyToken ==
  [form |-> "empty", alg |-> "", key |-> "", type |-> "", userId |-> 0,
   username |-> "", sessionId |-> 0, iss |-> "", exp |-> 0, iat |-> 0]

MalformedToken == [EmptyToken EXCEPT !.form = "malformed"]

\* jwt.NewWithClaims(HS256, MapClaims{...}).SignedString(secret)
SignedString(type, userID, username, sessionID, ttl, t) ==
  [form |-> "jws", alg |-> "HS256", key |-> Secret, type |-> type,
   userId |-> userID, username |-> username, sessionId |-> sessionID,
   iss |-> Issuer, exp |-> Unix(t + ttl), iat |-> Unix(t)]

generateAccessToken(userID, username, sessionID, t) ==
  SignedString(TokenTypeAccess, userID, username, sessionID, AccessExpiry, t)

\* Variant: the refresh token is built like the access token
generateRefreshTokenAsAccess(userID, username, sessionID, t) ==
  SignedString(TokenTypeAccess, userID, username, sessionID, AccessExpiry, t)

\* Variant: the refresh token lives a second longer than the session
generateRefreshTokenOutlives(userID, username, sessionID, t) ==
  SignedString(TokenTypeRefresh, userID, username, sessionID, RefreshExpiry + TicksPerSec, t)

generateRefreshToken(userID, username, sessionID, t) ==
  SignedString(TokenTypeRefresh, userID, username, sessionID, RefreshExpiry, t)

\* Variant: a token is still accepted at the instant of its exp
jwtParseGrace(tok, t) ==
  IF tok.form # "jws" THEN "token is malformed"
  ELSE IF tok.alg # "HS256" THEN "unexpected signing method"
  ELSE IF tok.key # Secret THEN "signature is invalid"
  ELSE IF t > FromUnix(tok.exp) THEN "token is expired"
  ELSE ""

\* jwt.Parse with the key function of validateToken: "" when the token
\* parses, verifies and is unexpired, else the reason.
jwtParse(tok, t) ==
  IF tok.form # "jws" THEN "token is malformed"
  ELSE IF tok.alg # "HS256" THEN "unexpected signing method"
  ELSE IF tok.key # Secret THEN "signature is invalid"
  ELSE IF ~(t < FromUnix(tok.exp)) THEN "token is expired"
  ELSE ""

NoClaims == [UserID |-> 0, Username |-> "", SessionID |-> 0, Type |-> ""]

\* Variant: the type claim is not compared with the expected type
validateTokenAnyType(tok, expectedType, t) ==
  IF jwtParse(tok, t) # ""
    THEN [err |-> "failed to parse token", claims |-> NoClaims]
  ELSE IF tok.userId = 0 \/ tok.username = "" \/ tok.sessionId = 0
    THEN [err |-> "missing required claims", claims |-> NoClaims]
  ELSE [err |-> "",
        claims |-> [UserID |-> tok.userId, Username |-> tok.username,
                    SessionID |-> tok.sessionId, Type |-> tok.type]]

\* Variant: the session id is read from the wrong claim
validateTokenWrongClaim(tok, expectedType, t) ==
  IF jwtParse(tok, t) # ""
    THEN [err |-> "failed to parse token", claims |-> NoClaims]
  ELSE IF tok.type # expectedType
    THEN [err |-> "invalid token type", claims |-> NoClaims]
  ELSE IF tok.userId = 0 \/ tok.username = "" \/ tok.sessionId = 0
    THEN [err |-> "missing required claims", claims |-> NoClaims]
  ELSE [err |-> "",
        claims |-> [UserID |-> tok.userId, Username |-> tok.username,
                    SessionID |-> tok.userId, Type |-> tok.type]]

\* Variant: the required claims are checked before the type
validateTokenClaimsFirst(tok, expectedType, t) ==
  IF jwtParse(tok, t) # ""
    THEN [err |-> "failed to parse token", claims |-> NoClaims]
  ELSE IF tok.userId = 0 \/ tok.username = "" \/ tok.sessionId = 0
    THEN [err |-> "missing required claims", claims |-> NoClaims]
  ELSE IF tok.type # expectedType
    THEN [err |-> "invalid token type", claims |-> NoClaims]
  ELSE [err |-> "",
        claims |-> [UserID |-> tok.userId, Username |-> tok.username,
                    SessionID |-> tok.sessionId, Type |-> tok.type]]

validateToken(tok, expectedType, t) ==
  IF jwtParse(tok, t) # ""
    THEN [err |-> "failed to parse token", claims |-> NoClaims]
  ELSE IF tok.type # expectedType
    THEN [err |-> "invalid token type", claims |-> NoClaims]
  ELSE IF tok.userId = 0 \/ tok.username = "" \/ tok.sessionId = 0
    THEN [err |-> "missing required claims", claims |-> NoClaims]
  ELSE [err |-> "",
        claims |-> [UserID |-> tok.userId, Username |-> tok.username,
                    SessionID |-> tok.sessionId, Type |-> tok.type]]

----------------------------------------------------------------------------
\* Passwords: a bcrypt hash carries the cost it was made with and keeps the
\* password recoverable only by comparison
DefaultCost == 10
MinCost == 4

hashPassword(password) == <<"bcrypt", bcryptCost, password>>

verifyPassword(hashedPassword, password) ==
  hashedPassword[1] = "bcrypt" /\ hashedPassword[3] = password

\* AuthService.SetBcryptCost: a plain store to the field, whoever is reading it
SetBcryptCost(cost) ==
  /\ bcryptCost' = cost
  /\ UNCHANGED <<users, nextUserID, sessions, nextSessionID, now, issued, revoked, last, reg,
                 run, todos, nextTodoID, resp>>

----------------------------------------------------------------------------
\* Credential store
NoUser == [ID |-> 0, Username |-> "", Password |-> <<"bcrypt", 0, "">>, Email |-> "", Deleted |-> FALSE]

ExistsByUsername(username) ==
  \E u \in users : u.Username = username /\ ~u.Deleted

ExistsByEmail(email) ==
  IF email = "" THEN FALSE
  ELSE \E u \in users : u.Email = email /\ ~u.Deleted

GetByUsername(username) ==
  IF \E u \in users : u.Username = username /\ ~u.Deleted
    THEN CHOOSE u \in users : u.Username = username /\ ~u.Deleted
    ELSE NoUser

GetByEmail(email) ==
  IF email # "" /\ \E u \in users : u.Email = email /\ ~u.Deleted
    THEN CHOOSE u \in users : u.Email = email /\ ~u.Deleted
    ELSE NoUser

\* Variant: a users table without unique constraints
NoUniqueIndex(username, email) == FALSE

\* UNIQUE(username), UNIQUE(email) of the users table; an absent email is
\* NULL and never collides.
UniqueViolation(username, email) ==
  \E u \in users : u.Username = username \/ (email # "" /\ u.Email = email)

----------------------------------------------------------------------------
\* Session store (RedisSessionStore).  An entry is the JSON of the session
\* under the key "session:<id>" together with the key's expiry; Redis drops
\* a key once the clock is past its expiry.
\* Variant: SET NX, an existing key keeps its value
storeSetKeepsOld(store, sessionID, session, expiration, t) ==
  store @@ (sessionID :> [value |-> session, expireAt |-> t + expiration])

storeSet(store, sessionID, session, expiration, t) ==
  (sessionID :> [value |-> session, expireAt |-> t + expiration]) @@ store

storeHas(store, sessionID) == sessionID \in DOMAIN store

storeGet(store, sessionID) == store[sessionID].value

\* Variant: the key is reported deleted but stays
storeDeleteKeeps(store, sessionID) == store

\* Variant: a delete that flushes the whole keyspace
storeDeleteFlushes(store, sessionID) == << >>

storeDelete(store, sessionID) ==
  [k \in DOMAIN store \ {sessionID} |-> store[k]]

\* Keys Redis still holds at time t
storeExpire(store, t) ==
  [k \in {j \in DOMAIN store : ~(t > store[j].expireAt)} |-> store[k]]

----------------------------------------------------------------------------
\* What a handler call returned, as the caller sees it, and the collaborator
\* calls it made, in order.  Handlers are called one after the other: the
\* record is dropped when the response has gone out (Respond).
NoSession == [ID |-> 0, UserID |-> 0, CreatedAt |-> 0, ExpiresAt |-> 0, IsActive |-> FALSE]

NoCall == [op |-> "", token |-> EmptyToken, name |-> "", email |-> "", err |-> "", cause |-> "",
           calls |-> <<>>, accessToken |-> EmptyToken,
           refreshToken |-> EmptyToken, userID |-> 0, claims |-> NoClaims,
           sessionID |-> 0, session |-> NoSession]

Returned(op, fields) ==
  [f \in DOMAIN NoCall |->
     IF f = "op" THEN op
     ELSE IF f \in DOMAIN fields THEN fields[f]
     ELSE NoCall[f]]

----------------------------------------------------------------------------
\* AuthService.Register, in the three stretches between its repository calls
RegisterRequests ==
  [Username : Usernames, Password : {"pw1"}, Email : Emails]

RegisterFaults == {"none", "ExistsByUsername", "ExistsByEmail", "hashPassword", "Create"}

\* Variant: the result of the username check is ignored
registerCheckUsernameSkips(req, fail) ==
  IF fail = "ExistsByUsername" THEN "failed to check username" ELSE ""

registerCheckUsername(req, fail) ==
  IF fail = "ExistsByUsername" THEN "failed to check username"
  ELSE IF ExistsByUsername(req.Username) THEN "username already exists"
  ELSE ""

\* Variant: the result of the email check is ignored
registerCheckEmailSkips(req, fail) ==
  IF req.Email # "" /\ fail = "ExistsByEmail" THEN "failed to check email" ELSE ""

registerCheckEmail(req, fail) ==
  IF req.Email = "" THEN ""
  ELSE IF fail = "ExistsByEmail" THEN "failed to check email"
  ELSE IF ExistsByEmail(req.Email) THEN "email already exists"
  ELSE ""

\* userRepository.Create: the insert, refused by a unique constraint or by
\* the backend
createCause(user, fail) ==
  IF fail = "Create" THEN "unavailable"
  ELSE IF UniqueViolation(user.Username, user.Email) THEN "duplicate key"
  ELSE ""

registerCreate(req, fail) ==
  LET user == [ID |-> nextUserID, Username |-> req.Username,
               Password |-> hashPassword(req.Password),
               Email |-> req.Email, Deleted |-> FALSE]
  IN IF fail = "hashPassword"
       THEN [err |-> "failed to hash password", cause |-> "", calls |-> <<>>, user |-> NoUser]
     ELSE IF createCause(user, fail) # ""
       THEN [err |-> "failed to create user", cause |-> createCause(user, fail),
             calls |-> <<"Create">>, user |-> NoUser]
     ELSE [err |-> "", cause |-> "", calls |-> <<"Create">>, user |-> user]

emailCalls(req) == IF req.Email = "" THEN <<>> ELSE <<"ExistsByEmail">>

\* The whole handler, run without another request in between
RegisterResult(req, fail) ==
  LET e1 == registerCheckUsername(req, fail)
      e2 == registerCheckEmail(req, fail)
      r3 == registerCreate(req, fail)
  IN IF e1 # ""
       THEN [err |-> e1, cause |-> "", calls |-> <<"ExistsByUsername">>, user |-> NoUser]
     ELSE IF e2 # ""
       THEN [err |-> e2, cause |-> "", calls |-> <<"ExistsByUsername">> \o emailCalls(req),
             user |-> NoUser]
     ELSE [r3 EXCEPT !.calls = <<"ExistsByUsername">> \o emailCalls(req) \o r3.calls]

\* Variant: a successful registration also opens a session
RegisterAutoLogin(req, fail) ==
  LET r == RegisterResult(req, fail)
      session == [ID |-> nextSessionID, UserID |-> r.user.ID, CreatedAt |-> now,
                  ExpiresAt |-> now + RefreshExpiry, IsActive |-> TRUE]
  IN /\ last = NoCall
     /\ r.err = "" => nextUserID <= MaxUsers /\ nextSessionID <= MaxSessions
     /\ users' = IF r.err = "" THEN users \cup {r.user} ELSE users
     /\ nextUserID' = IF r.err = "" THEN nextUserID + 1 ELSE nextUserID
     /\ sessions' = IF r.err = ""
                      THEN storeSet(sessions, nextSessionID, session, RefreshExpiry, now)
                      ELSE sessions
     /\ nextSessionID' = IF r.err = "" THEN nextSessionID + 1 ELSE nextSessionID
     /\ last' = Returned("Register",
                   [name |-> req.Username, email |-> req.Email, err |-> r.err,
                    cause |-> r.cause, calls |-> r.calls, userID |-> r.user.ID])
     /\ UNCHANGED <<now, issued, revoked, reg, run, bcryptCost, todos, nextTodoID, resp>>

Register(req, fail) ==
  LET r == RegisterResult(req, fail)
  IN /\ last = NoCall
     /\ r.err = "" => nextUserID <= MaxUsers
     /\ users' = IF r.err = "" THEN users \cup {r.user} ELSE users
     /\ nextUserID' = IF r.err = "" THEN nextUserID + 1 ELSE nextUserID
     /\ last' = Returned("Register",
                   [name |-> req.Username, email |-> req.Email, err |-> r.err,
                    cause |-> r.cause, calls |-> r.calls, userID |-> r.user.ID])
     /\ UNCHANGED <<sessions, nextSessionID, now, issued, revoked, reg, run, bcryptCost, todos, nextTodoID, resp>>

----------------------------------------------------------------------------
\* AuthService.Login
LoginRequests == [Username : Usernames, Password : Passwords]

LoginFaults == {"none", "GetByUsername", "Set", "generateAccessToken", "generateRefreshToken"}

\* Variant: a failed lookup is reported as such
NoLoginNamesCause(err, cause, calls) ==
  [err |-> IF cause = "user not found" THEN "user not found" ELSE err,
   cause |-> cause, calls |-> calls, store |-> sessions, newID |-> FALSE,
   accessToken |-> EmptyToken, refreshToken |-> EmptyToken, userID |-> 0]

\* A login that returns nil and an error
NoLogin(err, cause, calls) ==
  [err |-> err, cause |-> cause, calls |-> calls, store |-> sessions, newID |-> FALSE,
   accessToken |-> EmptyToken, refreshToken |-> EmptyToken, userID |-> 0]

LoginResult(req, fail) ==
  LET user == GetByUsername(req.Username)
      sessionID == nextSessionID
      session == [ID |-> sessionID, UserID |-> user.ID, CreatedAt |-> now,
                  ExpiresAt |-> now + RefreshExpiry, IsActive |-> TRUE]
      stored == storeSet(sessions, sessionID, session, RefreshExpiry, now)
  IN IF fail = "GetByUsername"
       THEN NoLogin("invalid credentials", "failed to get user", <<"GetByUsername">>)
     ELSE IF user = NoUser
       THEN NoLogin("invalid credentials", "user not found", <<"GetByUsername">>)
     ELSE IF ~verifyPassword(user.Password, req.Password)
       THEN NoLogin("invalid credentials", "wrong password", <<"GetByUsername">>)
     ELSE IF fail = "Set"
       THEN NoLogin("failed to create session", "failed to store session",
                    <<"GetByUsername", "Set">>)
     ELSE IF fail = "generateAccessToken"
       THEN [NoLogin("failed to generate access token", "", <<"GetByUsername", "Set">>)
               EXCEPT !.newID = TRUE, !.store = stored]
     ELSE IF fail = "generateRefreshToken"
       THEN [NoLogin("failed to generate refresh token", "", <<"GetByUsername", "Set">>)
               EXCEPT !.newID = TRUE, !.store = stored]
     ELSE [err |-> "", cause |-> "", calls |-> <<"GetByUsername", "Set">>, store |-> stored,
           newID |-> TRUE,
           accessToken |-> generateAccessToken(user.ID, user.Username, sessionID, now),
           refreshToken |-> generateRefreshToken(user.ID, user.Username, sessionID, now),
           userID |-> user.ID]

\* The effect of either login handler on the state
LoginEffect(op, name, email, r) ==
  /\ last = NoCall
  /\ r.newID => nextSessionID <= MaxSessions
  /\ sessions' = r.store
  /\ nextSessionID' = IF r.newID THEN nextSessionID + 1 ELSE nextSessionID
  /\ issued' = IF r.err = "" THEN issued \cup {r.accessToken, r.refreshToken} ELSE issued
  /\ last' = Returned(op,
                [name |-> name, email |-> email, err |-> r.err, cause |-> r.cause,
                 calls |-> r.calls, accessToken |-> r.accessToken,
                 refreshToken |-> r.refreshToken, userID |-> r.userID])
  /\ UNCHANGED <<users, nextUserID, now, revoked, reg, run, bcryptCost, todos, nextTodoID, resp>>

Login(req, fail) ==
  LoginEffect("Login", req.Username, "", LoginResult(req, fail))

\* AuthService.LoginByEmail
LoginByEmailRequests == [Email : Emails, Password : Passwords]

LoginByEmailFaults == {"none", "GetByEmail", "Set", "generateAccessToken", "generateRefreshToken"}

\* Variant: the email login does not compare the password
LoginByEmailResultAnyPassword(req, fail) ==
  LET user == GetByEmail(req.Email)
      sessionID == nextSessionID
      session == [ID |-> sessionID, UserID |-> user.ID, CreatedAt |-> now,
                  ExpiresAt |-> now + RefreshExpiry, IsActive |-> TRUE]
      stored == storeSet(sessions, sessionID, session, RefreshExpiry, now)
  IN IF fail = "GetByEmail"
       THEN NoLogin("invalid credentials", "failed to get user", <<"GetByEmail">>)
     ELSE IF user = NoUser
       THEN NoLogin("invalid credentials", "user not found", <<"GetByEmail">>)
     ELSE IF fail = "Set"
       THEN NoLogin("failed to create session", "failed to store session",
                    <<"GetByEmail", "Set">>)
     ELSE IF fail = "generateAccessToken"
       THEN [NoLogin("failed to generate access token", "", <<"GetByEmail", "Set">>)
               EXCEPT !.newID = TRUE, !.store = stored]
     ELSE IF fail = "generateRefreshToken"
       THEN [NoLogin("failed to generate refresh token", "", <<"GetByEmail", "Set">>)
               EXCEPT !.newID = TRUE, !.store = stored]
     ELSE [err |-> "", cause |-> "", calls |-> <<"GetByEmail", "Set">>, store |-> stored,
           newID |-> TRUE,
           accessToken |-> generateAccessToken(user.ID, user.Username, sessionID, now),
           refreshToken |-> generateRefreshToken(user.ID, user.Username, sessionID, now),
           userID |-> user.ID]

LoginByEmailResult(req, fail) ==
  LET user == GetByEmail(req.Email)
      sessionID == nextSessionID
      session == [ID |-> sessionID, UserID |-> user.ID, CreatedAt |-> now,
                  ExpiresAt |-> now + RefreshExpiry, IsActive |-> TRUE]
      stored == storeSet(sessions, sessionID, session, RefreshExpiry, now)
  IN IF fail = "GetByEmail"
       THEN NoLogin("invalid credentials", "failed to get user", <<"GetByEmail">>)
     ELSE IF user = NoUser
       THEN NoLogin("invalid credentials", "user not found", <<"GetByEmail">>)
     ELSE IF ~verifyPassword(user.Password, req.Password)
       THEN NoLogin("invalid credentials", "wrong password", <<"GetByEmail">>)
     ELSE IF fail = "Set"
       THEN NoLogin("failed to create session", "failed to store session",
                    <<"GetByEmail", "Set">>)
     ELSE IF fail = "generateAccessToken"
       THEN [NoLogin("failed to generate access token", "", <<"GetByEmail", "Set">>)
               EXCEPT !.newID = TRUE, !.store = stored]
     ELSE IF fail = "generateRefreshToken"
       THEN [NoLogin("failed to generate refresh token", "", <<"GetByEmail", "Set">>)
               EXCEPT !.newID = TRUE, !.store = stored]
     ELSE [err |-> "", cause |-> "", calls |-> <<"GetByEmail", "Set">>, store |-> stored,
           newID |-> TRUE,
           accessToken |-> generateAccessToken(user.ID, user.Username, sessionID, now),
           refreshToken |-> generateRefreshToken(user.ID, user.Username, sessionID, now),
           userID |-> user.ID]

LoginByEmail(req, fail) ==
  LoginEffect("LoginByEmail", "", req.Email, LoginByEmailResult(req, fail))

----------------------------------------------------------------------------
\* Token strings a caller can present: the empty string, a string that is
\* no token, a token signed with another key, an unsigned token and the
\* tokens logins have handed out.
ForgedToken ==
  [form |-> "jws", alg |-> "HS256", key |-> "other", type |-> TokenTypeRefresh,
   userId |-> 1, username |-> "alice", sessionId |-> 1, iss |-> Issuer,
   exp |-> Unix(MaxTime) + 1, iat |-> 0]

UnsignedToken == [ForgedToken EXCEPT !.alg = "none", !.key = ""]

TokenInputs ==
  {EmptyToken, MalformedToken, ForgedToken, UnsignedToken}
    \cup issued

\* Token strings of every shape a caller can put together: with the service's
\* key or another, of either type or none, with or without each of the
\* claims, expiring within the first second or after the last
CodecTokens ==
  [form : {"jws"}, alg : {"HS256"}, key : {Secret, "other"},
   type : {TokenTypeAccess, TokenTypeRefresh, ""},
   userId : {0, 1}, username : {"", "alice"}, sessionId : {0, 1},
   iss : {Issuer}, exp : {1, Unix(MaxTime) + 1}, iat : {0}]

\* AuthService.RefreshToken
RefreshFaults == {"none", "Get", "generateAccessToken"}

\* Variant: the reason the token was rejected is passed on to the caller
RefreshTokenResultNamesReason(tok, fail) ==
  LET v == validateToken(tok, TokenTypeRefresh, now)
      claims == v.claims
      session == storeGet(sessions, claims.SessionID)
  IN IF v.err # ""
       THEN [err |-> v.err, calls |-> <<>>, accessToken |-> EmptyToken]
     ELSE IF fail = "Get" \/ ~storeHas(sessions, claims.SessionID)
       THEN [err |-> "invalid session", calls |-> <<"Get">>, accessToken |-> EmptyToken]
     ELSE IF ~session.IsActive \/ now > session.ExpiresAt
       THEN [err |-> "session expired", calls |-> <<"Get">>, accessToken |-> EmptyToken]
     ELSE IF fail = "generateAccessToken"
       THEN [err |-> "failed to generate access token", calls |-> <<"Get">>,
             accessToken |-> EmptyToken]
     ELSE [err |-> "", calls |-> <<"Get">>,
           accessToken |-> generateAccessToken(claims.UserID, claims.Username,
                                               claims.SessionID, now)]

\* Variant: the fetched session is used without looking at it
RefreshTokenResultSkipsExpiry(tok, fail) ==
  LET v == validateToken(tok, TokenTypeRefresh, now)
      claims == v.claims
  IN IF v.err # ""
       THEN [err |-> "invalid refresh token", calls |-> <<>>, accessToken |-> EmptyToken]
     ELSE IF fail = "Get" \/ ~storeHas(sessions, claims.SessionID)
       THEN [err |-> "invalid session", calls |-> <<"Get">>, accessToken |-> EmptyToken]
     ELSE IF fail = "generateAccessToken"
       THEN [err |-> "failed to generate access token", calls |-> <<"Get">>,
             accessToken |-> EmptyToken]
     ELSE [err |-> "", calls |-> <<"Get">>,
           accessToken |-> generateAccessToken(claims.UserID, claims.Username,
                                               claims.SessionID, now)]

\* Variant: the user of the token must still be in the credential store
RefreshTokenResultChecksUser(tok, fail) ==
  LET v == validateToken(tok, TokenTypeRefresh, now)
      claims == v.claims
      session == storeGet(sessions, claims.SessionID)
  IN IF v.err # ""
       THEN [err |-> "invalid refresh token", calls |-> <<>>, accessToken |-> EmptyToken]
     ELSE IF fail = "Get" \/ ~storeHas(sessions, claims.SessionID)
       THEN [err |-> "invalid session", calls |-> <<"Get">>, accessToken |-> EmptyToken]
     ELSE IF ~session.IsActive \/ now > session.ExpiresAt
       THEN [err |-> "session expired", calls |-> <<"Get">>, accessToken |-> EmptyToken]
     ELSE IF ~\E u \in users : u.ID = claims.UserID /\ ~u.Deleted
       THEN [err |-> "invalid session", calls |-> <<"Get", "GetByID">>,
             accessToken |-> EmptyToken]
     ELSE IF fail = "generateAccessToken"
       THEN [err |-> "failed to generate access token", calls |-> <<"Get">>,
             accessToken |-> EmptyToken]
     ELSE [err |-> "", calls |-> <<"Get">>,
           accessToken |-> generateAccessToken(claims.UserID, claims.Username,
                                               claims.SessionID, now)]

RefreshTokenResult(tok, fail) ==
  LET v == validateToken(tok, TokenTypeRefresh, now)
      claims == v.claims
      session == storeGet(sessions, claims.SessionID)
  IN IF v.err # ""
       THEN [err |-> "invalid refresh token", calls |-> <<>>, accessToken |-> EmptyToken]
     ELSE IF fail = "Get" \/ ~storeHas(sessions, claims.SessionID)
       THEN [err |-> "invalid session", calls |-> <<"Get">>, accessToken |-> EmptyToken]
     ELSE IF ~session.IsActive \/ now > session.ExpiresAt
       THEN [err |-> "session expired", calls |-> <<"Get">>, accessToken |-> EmptyToken]
     ELSE IF fail = "generateAccessToken"
       THEN [err |-> "failed to generate access token", calls |-> <<"Get">>,
             accessToken |-> EmptyToken]
     ELSE [err |-> "", calls |-> <<"Get">>,
           accessToken |-> generateAccessToken(claims.UserID, claims.Username,
                                               claims.SessionID, now)]

\* Variant: a successful refresh stores the session again with a new expiry
RefreshTokenExtends(tok, fail) ==
  LET r == RefreshTokenResult(tok, fail)
      sid == tok.sessionId
  IN /\ last = NoCall
     /\ sessions' = IF r.err = ""
                      THEN storeSet(sessions, sid,
                                    [storeGet(sessions, sid) EXCEPT !.ExpiresAt = now + RefreshExpiry],
                                    RefreshExpiry, now)
                      ELSE sessions
     /\ last' = Returned("RefreshToken",
                   [token |-> tok, err |-> r.err,
                    calls |-> IF r.err = "" THEN r.calls \o <<"Set">> ELSE r.calls,
                    accessToken |-> r.accessToken])
     /\ UNCHANGED <<users, nextUserID, nextSessionID, now, issued, revoked, reg, run, bcryptCost, todos, nextTodoID, resp>>

RefreshToken(tok, fail) ==
  LET r == RefreshTokenResult(tok, fail)
  IN /\ last = NoCall
     /\ last' = Returned("RefreshToken",
                   [token |-> tok, err |-> r.err, calls |-> r.calls,
                    accessToken |-> r.accessToken])
     /\ UNCHANGED <<users, nextUserID, sessions, nextSessionID, now, issued, revoked, reg, run, bcryptCost, todos, nextTodoID, resp>>

\* AuthService.Logout
LogoutFaults == {"none", "Delete"}

\* Variant: a failed delete is returned to the caller
LogoutResultSurfaces(tok, fail) ==
  LET v == validateToken(tok, TokenTypeRefresh, now)
      sessionID == v.claims.SessionID
  IN IF tok = EmptyToken \/ v.err # ""
       THEN [err |-> "", calls |-> <<>>, cause |-> "", store |-> sessions, deleted |-> {}]
     ELSE IF fail = "Delete"
       THEN [err |-> "failed to delete session", calls |-> <<"Delete">>,
             cause |-> "failed to delete session", store |-> sessions, deleted |-> {}]
     ELSE IF ~storeHas(sessions, sessionID)
       THEN [err |-> "session not found", calls |-> <<"Delete">>,
             cause |-> "session not found", store |-> sessions, deleted |-> {}]
     ELSE [err |-> "", calls |-> <<"Delete">>, cause |-> "",
           store |-> storeDelete(sessions, sessionID), deleted |-> {sessionID}]

\* Variant: deleting a session that is already gone is an error of Logout
LogoutResultNotFound(tok, fail) ==
  LET v == validateToken(tok, TokenTypeRefresh, now)
      sessionID == v.claims.SessionID
  IN IF tok = EmptyToken \/ v.err # ""
       THEN [err |-> "", calls |-> <<>>, cause |-> "", store |-> sessions, deleted |-> {}]
     ELSE IF fail = "Delete"
       THEN [err |-> "", calls |-> <<"Delete">>, cause |-> "failed to delete session",
             store |-> sessions, deleted |-> {}]
     ELSE IF ~storeHas(sessions, sessionID)
       THEN [err |-> "session not found", calls |-> <<"Delete">>,
             cause |-> "session not found", store |-> sessions, deleted |-> {}]
     ELSE [err |-> "", calls |-> <<"Delete">>, cause |-> "",
           store |-> storeDelete(sessions, sessionID), deleted |-> {sessionID}]

LogoutResult(tok, fail) ==
  LET v == validateToken(tok, TokenTypeRefresh, now)
      sessionID == v.claims.SessionID
  IN IF tok = EmptyToken \/ v.err # ""
       THEN [err |-> "", calls |-> <<>>, cause |-> "", store |-> sessions, deleted |-> {}]
     ELSE IF fail = "Delete"
       THEN [err |-> "", calls |-> <<"Delete">>, cause |-> "failed to delete session",
             store |-> sessions, deleted |-> {}]
     ELSE IF ~storeHas(sessions, sessionID)
       THEN [err |-> "", calls |-> <<"Delete">>, cause |-> "session not found",
             store |-> sessions, deleted |-> {}]
     ELSE [err |-> "", calls |-> <<"Delete">>, cause |-> "",
           store |-> storeDelete(sessions, sessionID), deleted |-> {sessionID}]

Logout(tok, fail) ==
  LET r == LogoutResult(tok, fail)
  IN /\ last = NoCall
     /\ sessions' = r.store
     /\ revoked' = revoked \cup r.deleted
     /\ last' = Returned("Logout",
                   [token |-> tok, err |-> r.err, cause |-> r.cause, calls |-> r.calls])
     /\ UNCHANGED <<users, nextUserID, nextSessionID, now, issued, reg, run, bcryptCost, todos, nextTodoID, resp>>

\* AuthService.ValidateAccessToken
\* Variant: the access token is also checked against the session store
ValidateAccessTokenChecksSession(tok) ==
  LET v == validateToken(tok, TokenTypeAccess, now)
  IN IF v.err = "" /\ ~storeHas(sessions, v.claims.SessionID)
       THEN [err |-> "invalid session", calls |-> <<"Get">>, claims |-> NoClaims]
       ELSE [err |-> v.err, calls |-> IF v.err = "" THEN <<"Get">> ELSE <<>>,
             claims |-> v.claims]

ValidateAccessTokenResult(tok) ==
  LET v == validateToken(tok, TokenTypeAccess, now)
  IN [err |-> v.err, calls |-> <<>>, claims |-> v.claims]

ValidateAccessToken(tok) ==
  LET r == ValidateAccessTokenResult(tok)
  IN /\ last = NoCall
     /\ last' = Returned("ValidateAccessToken",
                   [token |-> tok, err |-> r.err, calls |-> r.calls, claims |-> r.claims])
     /\ UNCHANGED <<users, nextUserID, sessions, nextSessionID, now, issued, revoked, reg, run, bcryptCost, todos, nextTodoID, resp>>

----------------------------------------------------------------------------
\* The clock advances; Redis expires the keys whose time has come
Tick ==
  /\ last = NoCall
  /\ now < MaxTime
  /\ now' = now + 1
  /\ sessions' = storeExpire(sessions, now + 1)
  /\ UNCHANGED <<users, nextUserID, nextSessionID, issued, revoked, last, reg, run, bcryptCost, todos, nextTodoID, resp>>

----------------------------------------------------------------------------
\* Register calls of concurrent workers on one AuthService: a worker's call
\* can be overtaken by another worker's between any two repository calls.
Idle == [pc |-> "idle", req |-> [Username |-> "", Password |-> "", Email |-> ""],
         err |-> "", cause |-> "", calls |-> <<>>]

Done(w, req, err, cause, calls) ==
  reg' = [reg EXCEPT ![w] = [pc |-> "done", req |-> req, err |-> err,
                             cause |-> cause, calls |-> calls]]

RegisterBegin(w, req, fail) ==
  LET e == registerCheckUsername(req, fail)
  IN /\ reg[w].pc = "idle"
     /\ IF e # ""
          THEN Done(w, req, e, "", <<"ExistsByUsername">>)
          ELSE reg' = [reg EXCEPT ![w] = [pc |-> "email", req |-> req, err |-> "",
                                          cause |-> "", calls |-> <<"ExistsByUsername">>]]
     /\ UNCHANGED <<users, nextUserID, sessions, nextSessionID, now, issued, revoked, last, run, bcryptCost, todos, nextTodoID, resp>>

RegisterEmail(w, fail) ==
  LET req == reg[w].req
      e == registerCheckEmail(req, fail)
      calls == reg[w].calls \o emailCalls(req)
  IN /\ reg[w].pc = "email"
     /\ IF e # ""
          THEN Done(w, req, e, "", calls)
          ELSE reg' = [reg EXCEPT ![w].pc = "create", ![w].calls = calls]
     /\ UNCHANGED <<users, nextUserID, sessions, nextSessionID, now, issued, revoked, last, run, bcryptCost, todos, nextTodoID, resp>>

RegisterInsert(w, fail) ==
  LET req == reg[w].req
      r == registerCreate(req, fail)
  IN /\ reg[w].pc = "create"
     /\ r.err = "" => nextUserID <= MaxUsers
     /\ users' = IF r.err = "" THEN users \cup {r.user} ELSE users
     /\ nextUserID' = IF r.err = "" THEN nextUserID + 1 ELSE nextUserID
     /\ Done(w, req, r.err, r.cause, reg[w].calls \o r.calls)
     /\ UNCHANGED <<sessions, nextSessionID, now, issued, revoked, last, run, bcryptCost, todos, nextTodoID, resp>>

RegisterReturn(w) ==
  /\ reg[w].pc = "done"
  /\ reg' = [reg EXCEPT ![w] = Idle]
  /\ UNCHANGED <<users, nextUserID, sessions, nextSessionID, now, issued, revoked, last, run, bcryptCost, todos, nextTodoID, resp>>

----------------------------------------------------------------------------
\* The session store called directly: RedisSessionStore.Set, Get and Delete
StoreSessions ==
  [ID : SessionIDs, UserID : UserIDs, CreatedAt : {0}, ExpiresAt : {now + RefreshExpiry},
   IsActive : BOOLEAN]

Expirations == {1, RefreshExpiry}

RedisSet(session, expiration, fail) ==
  /\ last = NoCall
  /\ sessions' = IF fail THEN sessions
                  ELSE storeSet(sessions, session.ID, session, expiration, now)
  /\ last' = Returned("Set",
                [sessionID |-> session.ID, session |-> session,
                 err |-> IF fail THEN "failed to store session" ELSE ""])
  /\ UNCHANGED <<users, nextUserID, nextSessionID, now, issued, revoked, reg, run,
                 bcryptCost, todos, nextTodoID, resp>>

RedisGetResult(sessionID, fail) ==
  IF fail THEN [err |-> "failed to get session", session |-> NoSession]
  ELSE IF ~storeHas(sessions, sessionID)
    THEN [err |-> "session not found", session |-> NoSession]
    ELSE [err |-> "", session |-> storeGet(sessions, sessionID)]

RedisGet(sessionID, fail) ==
  LET r == RedisGetResult(sessionID, fail)
  IN /\ last = NoCall
     /\ last' = Returned("Get", [sessionID |-> sessionID, session |-> r.session, err |-> r.err])
     /\ UNCHANGED <<users, nextUserID, sessions, nextSessionID, now, issued, revoked, reg, run,
                    bcryptCost, todos, nextTodoID, resp>>

RedisDelete(sessionID, fail) ==
  /\ last = NoCall
  /\ sessions' = IF ~fail /\ storeHas(sessions, sessionID)
                    THEN storeDelete(sessions, sessionID) ELSE sessions
  /\ last' = Returned("Delete",
                [sessionID |-> sessionID,
                 err |-> IF fail THEN "failed to delete session"
                         ELSE IF ~storeHas(sessions, sessionID) THEN "session not found"
                         ELSE ""])
  /\ UNCHANGED <<users, nextUserID, nextSessionID, now, issued, revoked, reg, run,
                 bcryptCost, todos, nextTodoID, resp>>

\* userRepository.Delete: a soft delete, the row stays and is marked
UserDelete(id) ==
  /\ last = NoCall
  /\ \E u \in users : u.ID = id /\ ~u.Deleted
  /\ users' = {IF u.ID = id THEN [u EXCEPT !.Deleted = TRUE] ELSE u : u \in users}
  /\ UNCHANGED <<nextUserID, sessions, nextSessionID, now, issued, revoked, last, reg, run,
                 bcryptCost, todos, nextTodoID, resp>>

\* RedisSessionStore.DeleteUserSessions: KEYS, a GET of every key, one DEL of
\* the keys whose session is the user's.  A key whose GET fails is skipped.
DeleteUserSessionsFaults == {"none", "Keys", "Del"}

userSessionKeys(userID, skipped) ==
  {k \in DOMAIN sessions \ skipped : sessions[k].value.UserID = userID}

DeleteUserSessions(userID, fail, skipped) ==
  LET keys == userSessionKeys(userID, skipped)
      err == IF fail = "Keys" THEN "failed to get session keys"
             ELSE IF fail = "Del" /\ keys # {} THEN "failed to delete user sessions"
             ELSE ""
  IN /\ last = NoCall
     /\ fail = "Keys" => skipped = {}
     /\ sessions' = IF err = "" THEN [k \in DOMAIN sessions \ keys |-> sessions[k]] ELSE sessions
     /\ revoked' = IF err = "" THEN revoked \cup keys ELSE revoked
     /\ last' = Returned("DeleteUserSessions", [userID |-> userID, err |-> err])
     /\ UNCHANGED <<users, nextUserID, nextSessionID, now, issued, reg, run,
                    bcryptCost, todos, nextTodoID, resp>>

----------------------------------------------------------------------------
\* Another client of the session store writes a session under the id of an
\* existing login, as SessionStore.Set allows: an active session whose
\* expiry is already past, or an inactive one with its expiry ahead.
SessionWrites ==
  [ID : 1..(nextSessionID - 1), UserID : {u.ID : u \in users},
   CreatedAt : {0}, ExpiresAt : {now - 1}, IsActive : {TRUE}]
    \cup
  [ID : 1..(nextSessionID - 1), UserID : {u.ID : u \in users},
   CreatedAt : {0}, ExpiresAt : {now + RefreshExpiry}, IsActive : {FALSE}]

SessionStoreSet(session) ==
  /\ last = NoCall
  /\ \E t \in issued : t.sessionId = session.ID /\ t.userId = session.UserID
  /\ sessions' = storeSet(sessions, session.ID, session, RefreshExpiry, now)
  /\ UNCHANGED <<users, nextUserID, nextSessionID, now, issued, revoked, last, reg, run, bcryptCost, todos, nextTodoID, resp>>

----------------------------------------------------------------------------
\* RefreshToken and Logout calls of concurrent workers on one AuthService:
\* a worker's call can be overtaken by another worker's between its
\* validateToken and its session-store call, and between the store call and
\* what follows it.  A call is over within one reading of the clock.
NotRunning ==
  [pc |-> "idle", op |-> "", token |-> EmptyToken, session |-> NoSession,
   got |-> FALSE, gone |-> FALSE, err |-> "", accessToken |-> EmptyToken]

RunDone(w, err, accessToken) ==
  run' = [run EXCEPT ![w].pc = "done", ![w].err = err, ![w].accessToken = accessToken]

\* RefreshToken up to the return of validateToken
RefreshBegin(w, tok) ==
  LET v == validateToken(tok, TokenTypeRefresh, now)
  IN /\ run[w].pc = "idle"
     /\ run' = [run EXCEPT ![w] =
                  IF v.err # ""
                    THEN [NotRunning EXCEPT !.pc = "done", !.op = "RefreshToken",
                                            !.token = tok, !.err = "invalid refresh token"]
                    ELSE [NotRunning EXCEPT !.pc = "get", !.op = "RefreshToken",
                                            !.token = tok]]
     /\ UNCHANGED <<users, nextUserID, sessions, nextSessionID, now, issued, revoked, last, reg, bcryptCost, todos, nextTodoID, resp>>

\* sessionStore.Get and its error branch; gone notes whether a Logout had
\* deleted the key by then
RefreshGet(w) ==
  LET sid == run[w].token.sessionId
  IN /\ run[w].pc = "get"
     /\ run' = [run EXCEPT ![w] =
                  IF ~storeHas(sessions, sid)
                    THEN [@ EXCEPT !.pc = "done", !.err = "invalid session",
                                   !.gone = sid \in revoked]
                    ELSE [@ EXCEPT !.pc = "issue", !.session = storeGet(sessions, sid),
                                   !.got = TRUE, !.gone = sid \in revoked]]
     /\ UNCHANGED <<users, nextUserID, sessions, nextSessionID, now, issued, revoked, last, reg, bcryptCost, todos, nextTodoID, resp>>

\* Variant: the session is looked up once more before the token is issued
RefreshIssueRechecks(w) ==
  LET tok == run[w].token
      session == run[w].session
  IN /\ run[w].pc = "issue"
     /\ IF ~storeHas(sessions, tok.sessionId)
          THEN RunDone(w, "invalid session", EmptyToken)
        ELSE IF ~session.IsActive \/ now > session.ExpiresAt
          THEN RunDone(w, "session expired", EmptyToken)
          ELSE RunDone(w, "", generateAccessToken(tok.userId, tok.username, tok.sessionId, now))
     /\ UNCHANGED <<users, nextUserID, sessions, nextSessionID, now, issued, revoked, last, reg, bcryptCost, todos, nextTodoID, resp>>

\* The check of the fetched session and generateAccessToken
RefreshIssue(w) ==
  LET tok == run[w].token
      session == run[w].session
  IN /\ run[w].pc = "issue"
     /\ IF ~session.IsActive \/ now > session.ExpiresAt
          THEN RunDone(w, "session expired", EmptyToken)
          ELSE RunDone(w, "", generateAccessToken(tok.userId, tok.username, tok.sessionId, now))
     /\ UNCHANGED <<users, nextUserID, sessions, nextSessionID, now, issued, revoked, last, reg, bcryptCost, todos, nextTodoID, resp>>

\* Logout up to the return of validateToken
LogoutBegin(w, tok) ==
  LET v == validateToken(tok, TokenTypeRefresh, now)
  IN /\ run[w].pc = "idle"
     /\ run' = [run EXCEPT ![w] =
                  IF tok = EmptyToken \/ v.err # ""
                    THEN [NotRunning EXCEPT !.pc = "done", !.op = "Logout", !.token = tok]
                    ELSE [NotRunning EXCEPT !.pc = "delete", !.op = "Logout", !.token = tok]]
     /\ UNCHANGED <<users, nextUserID, sessions, nextSessionID, now, issued, revoked, last, reg, bcryptCost, todos, nextTodoID, resp>>

\* sessionStore.Delete, its error logged, and the return
LogoutDelete(w) ==
  LET sid == run[w].token.sessionId
  IN /\ run[w].pc = "delete"
     /\ sessions' = IF storeHas(sessions, sid) THEN storeDelete(sessions, sid) ELSE sessions
     /\ revoked' = IF storeHas(sessions, sid) THEN revoked \cup {sid} ELSE revoked
     /\ RunDone(w, "", EmptyToken)
     /\ UNCHANGED <<users, nextUserID, nextSessionID, now, issued, last, reg, bcryptCost, todos, nextTodoID, resp>>

RunReturn(w) ==
  /\ run[w].pc = "done"
  /\ run' = [run EXCEPT ![w] = NotRunning]
  /\ UNCHANGED <<users, nextUserID, sessions, nextSessionID, now, issued, revoked, last, reg, bcryptCost, todos, nextTodoID, resp>>

\* The clock, between calls
TickIdle ==
  /\ \A w \in Workers : run[w].pc = "idle"
  /\ Tick

----------------------------------------------------------------------------
\* The todo API: the routes of TodoHandler.RegisterRoutes behind AuthMiddleware,
\* over the todo repository.

\* models.Todo, as far as the handlers look at it; a deleted row stays, marked
NoTodo == [ID |-> "", UserID |-> 0, Title |-> "", Status |-> "", Deleted |-> FALSE]

TodoStatusPending == "pending"

IsValidStatus(status) == status \in {"pending", "in_progress", "completed"}

IsValidPriority(priority) == priority \in {"low", "medium", "high"}

\* Path parameters: the ids the repository hands out and the last segments
\* of the three routes registered after "/:id"
TodoIDs == {ToString(n) : n \in 1..MaxTodos}
PathIDs == TodoIDs \cup {"overdue", "search", "stats"}

\* The route table in registration order; the first route whose method and
\* pattern match the request serves it
Routes ==
  << [method |-> "POST", pattern |-> <<>>, handler |-> "CreateTodo"],
     [method |-> "GET", pattern |-> <<>>, handler |-> "GetTodos"],
     [method |-> "GET", pattern |-> <<":id">>, handler |-> "GetTodo"],
     [method |-> "PUT", pattern |-> <<":id">>, handler |-> "UpdateTodo"],
     [method |-> "DELETE", pattern |-> <<":id">>, handler |-> "DeleteTodo"],
     [method |-> "PATCH", pattern |-> <<":id", "status">>, handler |-> "UpdateTodoStatus"],
     [method |-> "GET", pattern |-> <<"overdue">>, handler |-> "GetOverdueTodos"],
     [method |-> "GET", pattern |-> <<"search">>, handler |-> "SearchTodos"],
     [method |-> "GET", pattern |-> <<"stats">>, handler |-> "GetTodoStats"] >>

RouteMatches(route, method, path) ==
  /\ route.method = method
  /\ Len(route.pattern) = Len(path)
  /\ \A i \in 1..Len(path) : route.pattern[i] = ":id" \/ route.pattern[i] = path[i]

Route(method, path) ==
  LET hits == {i \in 1..Len(Routes) : RouteMatches(Routes[i], method, path)}
  IN IF hits = {} THEN ""
     ELSE Routes[CHOOSE i \in hits : \A j \in hits : i <= j].handler

\* Authorization headers: none, one of another scheme, and "Bearer " followed
\* by nothing, by a token of another key, by an expired access token, by a refresh token, by an access token that
\* lacks the username, or by the access token of a user
UsernameOf(userID) == IF userID = 1 THEN "alice" ELSE "bob"

HeaderTokens ==
  {EmptyToken, ForgedToken,
   SignedString(TokenTypeAccess, 1, "alice", 1, 0, 0),
   SignedString(TokenTypeRefresh, 1, "alice", 1, MaxTime + TicksPerSec, 0),
   SignedString(TokenTypeAccess, 1, "", 1, MaxTime + TicksPerSec, 0)}
    \cup {SignedString(TokenTypeAccess, u, UsernameOf(u), u, MaxTime + TicksPerSec, 0) :
             u \in UserIDs}

Headers ==
  {[scheme |-> "", token |-> EmptyToken], [scheme |-> "Basic", token |-> EmptyToken]}
    \cup [scheme : {"Bearer"}, token : HeaderTokens]

\* JSON request bodies: one that does not parse, and objects with or without
\* a title and a status
Bodies ==
  {[parses |-> FALSE, Title |-> "", Status |-> ""]}
    \cup [parses : {TRUE}, Title : {"", "t1"}, Status : {"", "completed", "bogus"}]

NoBody == [parses |-> TRUE, Title |-> "", Status |-> ""]

\* Query strings of GET /todos; an absent limit reads as 10, an absent offset as 0
Queries ==
  [limit : {5, 200}, offset : {0, 10}, status : {"", "pending", "invalid_status"},
   priority : {"", "invalid_priority"}]

NoQuery == [limit |-> 10, offset |-> 0, status |-> "", priority |-> ""]

\* A call of the todo repository
RepoCall(fn, userID, id, limit, offset) ==
  [fn |-> fn, userID |-> userID, id |-> id, limit |-> limit, offset |-> offset]

\* What an HTTP request got back, and what it made the server do
NoResponse ==
  [method |-> "", path |-> <<>>, header |-> [scheme |-> "", token |-> EmptyToken],
   body |-> NoBody, query |-> NoQuery,
   handler |-> "", userID |-> 0, username |-> "", sessionID |-> 0,
   status |-> 0, error |-> "", message |-> "", calls |-> <<>>,
   todo |-> NoTodo, total |-> 0, limit |-> 0, offset |-> 0]

\* A handler's result: the response and the rows it leaves
Result(status, error, message, calls) ==
  [status |-> status, error |-> error, message |-> message, calls |-> calls,
   todo |-> NoTodo, total |-> 0, limit |-> 0, offset |-> 0,
   rows |-> todos, nextID |-> nextTodoID]

\* Variant: the middleware lets a request without a header through
AuthMiddlewareOptional(header) ==
  LET v == ValidateAccessTokenResult(header.token)
  IN IF header.scheme = ""
       THEN [status |-> 0, message |-> "", userID |-> 0, username |-> "", sessionID |-> 0]
     ELSE IF header.scheme # "Bearer"
       THEN [status |-> 401, message |-> "Invalid authorization header format",
             userID |-> 0, username |-> "", sessionID |-> 0]
     ELSE IF header.token = EmptyToken
       THEN [status |-> 401, message |-> "Empty token",
             userID |-> 0, username |-> "", sessionID |-> 0]
     ELSE IF v.err # ""
       THEN [status |-> 401, message |-> "Invalid token",
             userID |-> 0, username |-> "", sessionID |-> 0]
     ELSE [status |-> 0, message |-> "", userID |-> v.claims.UserID,
           username |-> v.claims.Username, sessionID |-> v.claims.SessionID]

\* middleware.AuthMiddleware: status 0 stands for c.Next()
AuthMiddleware(header) ==
  LET v == ValidateAccessTokenResult(header.token)
  IN IF header.scheme = ""
       THEN [status |-> 401, message |-> "Missing authorization header",
             userID |-> 0, username |-> "", sessionID |-> 0]
     ELSE IF header.scheme # "Bearer"
       THEN [status |-> 401, message |-> "Invalid authorization header format",
             userID |-> 0, username |-> "", sessionID |-> 0]
     ELSE IF header.token = EmptyToken
       THEN [status |-> 401, message |-> "Empty token",
             userID |-> 0, username |-> "", sessionID |-> 0]
     ELSE IF v.err # ""
       THEN [status |-> 401, message |-> "Invalid token",
             userID |-> 0, username |-> "", sessionID |-> 0]
     ELSE [status |-> 0, message |-> "", userID |-> v.claims.UserID,
           username |-> v.claims.Username, sessionID |-> v.claims.SessionID]

\* todoRepository.GetByID; the MongoDB repository answers "todo not found"
\* for a missing row, the PostgreSQL one wraps the driver's error
TodoDBs == {"mongodb", "postgres"}

GetByID(id, db, fail) ==
  IF fail = "GetByID" THEN [err |-> "failed to get todo", todo |-> NoTodo]
  ELSE IF \E t \in todos : t.ID = id /\ ~t.Deleted
    THEN [err |-> "", todo |-> CHOOSE t \in todos : t.ID = id /\ ~t.Deleted]
  ELSE [err |-> IF db = "mongodb" THEN "todo not found" ELSE "failed to get todo",
        todo |-> NoTodo]

\* What the handlers do after a failed or foreign GetByID
TodoNotFound(calls) == Result(404, "Not Found", "Todo not found", calls)

GetByIDFailed(err, calls) ==
  IF err = "todo not found" THEN TodoNotFound(calls)
  ELSE Result(500, "Internal Server Error", "Failed to get todo", calls)

AuthenticationRequired == Result(401, "Unauthorized", "Authentication required", <<>>)

\* TodoHandler.CreateTodo
CreateTodoResult(userID, body, fail) ==
  LET call == RepoCall("Create", userID, "", 0, 0)
      todo == [ID |-> ToString(nextTodoID), UserID |-> userID, Title |-> body.Title,
               Status |-> TodoStatusPending, Deleted |-> FALSE]
  IN IF userID = 0 THEN AuthenticationRequired
     ELSE IF ~body.parses THEN Result(400, "Bad Request", "Invalid request body", <<>>)
     ELSE IF body.Title = "" THEN Result(400, "Validation Error", "Invalid input data", <<>>)
     ELSE IF fail = "Create"
       THEN Result(500, "Internal Server Error", "Failed to create todo", <<call>>)
     ELSE [Result(201, "", "", <<call>>) EXCEPT
             !.todo = todo, !.rows = todos \cup {todo}, !.nextID = nextTodoID + 1]

\* TodoHandler.GetTodos
GetTodosResult(userID, query, fail) ==
  LET limit == IF query.limit <= 0 \/ query.limit > 100 THEN 10 ELSE query.limit
      offset == IF query.offset < 0 THEN 0 ELSE query.offset
      fn == IF query.status # "" /\ IsValidStatus(query.status) THEN "GetByStatus"
            ELSE IF query.priority # "" /\ IsValidPriority(query.priority)
              THEN "GetByPriority"
            ELSE "GetByUserID"
      call == RepoCall(fn, userID, "", limit, offset)
      found == {t \in todos :
                  /\ t.UserID = userID /\ ~t.Deleted
                  /\ fn = "GetByStatus" => t.Status = query.status
                  /\ fn = "GetByPriority" => query.priority = "medium"}
  IN IF userID = 0 THEN AuthenticationRequired
     ELSE IF fail = fn
       THEN Result(500, "Internal Server Error", "Failed to get todos", <<call>>)
     ELSE [Result(200, "", "", <<call>>) EXCEPT
             !.total = Cardinality(found), !.limit = limit, !.offset = offset]

\* TodoHandler.GetTodo
GetTodoResult(userID, id, db, fail) ==
  LET got == GetByID(id, db, fail)
      calls == <<RepoCall("GetByID", 0, id, 0, 0)>>
  IN IF userID = 0 THEN AuthenticationRequired
     ELSE IF id = "" THEN Result(400, "Bad Request", "Todo ID is required", <<>>)
     ELSE IF got.err # "" THEN GetByIDFailed(got.err, calls)
     ELSE IF got.todo.UserID # userID THEN TodoNotFound(calls)
     ELSE [Result(200, "", "", calls) EXCEPT !.todo = got.todo]

\* Variant: the update handler takes any todo that exists
UpdateTodoResultAnyOwner(userID, id, body, db, fail) ==
  LET got == GetByID(id, db, fail)
      calls == <<RepoCall("GetByID", 0, id, 0, 0)>>
      update == RepoCall("Update", 0, id, 0, 0)
      todo == [got.todo EXCEPT
                 !.Title = IF body.Title # "" THEN body.Title ELSE @,
                 !.Status = IF body.Status # "" THEN body.Status ELSE @]
  IN IF userID = 0 THEN AuthenticationRequired
     ELSE IF id = "" THEN Result(400, "Bad Request", "Todo ID is required", <<>>)
     ELSE IF ~body.parses THEN Result(400, "Bad Request", "Invalid request body", <<>>)
     ELSE IF body.Status # "" /\ ~IsValidStatus(body.Status)
       THEN Result(400, "Validation Error", "Invalid input data", <<>>)
     ELSE IF got.err # "" THEN GetByIDFailed(got.err, calls)
     ELSE IF fail = "Update"
       THEN Result(500, "Internal Server Error", "Failed to update todo",
                   Append(calls, update))
     ELSE [Result(200, "", "", Append(calls, update)) EXCEPT
             !.todo = todo, !.rows = (todos \ {got.todo}) \cup {todo}]

\* TodoHandler.UpdateTodo
UpdateTodoResult(userID, id, body, db, fail) ==
  LET got == GetByID(id, db, fail)
      calls == <<RepoCall("GetByID", 0, id, 0, 0)>>
      update == RepoCall("Update", 0, id, 0, 0)
      todo == [got.todo EXCEPT
                 !.Title = IF body.Title # "" THEN body.Title ELSE @,
                 !.Status = IF body.Status # "" THEN body.Status ELSE @]
  IN IF userID = 0 THEN AuthenticationRequired
     ELSE IF id = "" THEN Result(400, "Bad Request", "Todo ID is required", <<>>)
     ELSE IF ~body.parses THEN Result(400, "Bad Request", "Invalid request body", <<>>)
     ELSE IF body.Status # "" /\ ~IsValidStatus(body.Status)
       THEN Result(400, "Validation Error", "Invalid input data", <<>>)
     ELSE IF got.err # "" THEN GetByIDFailed(got.err, calls)
     ELSE IF got.todo.UserID # userID THEN TodoNotFound(calls)
     ELSE IF fail = "Update"
       THEN Result(500, "Internal Server Error", "Failed to update todo",
                   Append(calls, update))
     ELSE [Result(200, "", "", Append(calls, update)) EXCEPT
             !.todo = todo, !.rows = (todos \ {got.todo}) \cup {todo}]

\* TodoHandler.DeleteTodo
DeleteTodoResult(userID, id, db, fail) ==
  LET got == GetByID(id, db, fail)
      calls == <<RepoCall("GetByID", 0, id, 0, 0)>>
      delete == RepoCall("Delete", 0, id, 0, 0)
  IN IF userID = 0 THEN AuthenticationRequired
     ELSE IF id = "" THEN Result(400, "Bad Request", "Todo ID is required", <<>>)
     ELSE IF got.err # "" THEN GetByIDFailed(got.err, calls)
     ELSE IF got.todo.UserID # userID THEN TodoNotFound(calls)
     ELSE IF fail = "Delete"
       THEN Result(500, "Internal Server Error", "Failed to delete todo",
                   Append(calls, delete))
     ELSE [Result(204, "", "", Append(calls, delete)) EXCEPT
             !.rows = (todos \ {got.todo}) \cup {[got.todo EXCEPT !.Deleted = TRUE]}]

\* TodoHandler.UpdateTodoStatus
UpdateTodoStatusResult(userID, id, body, db, fail) ==
  LET got == GetByID(id, db, fail)
      calls == <<RepoCall("GetByID", 0, id, 0, 0)>>
      update == RepoCall("UpdateStatus", 0, id, 0, 0)
  IN IF userID = 0 THEN AuthenticationRequired
     ELSE IF id = "" THEN Result(400, "Bad Request", "Todo ID is required", <<>>)
     ELSE IF ~body.parses THEN Result(400, "Bad Request", "Invalid request body", <<>>)
     ELSE IF ~IsValidStatus(body.Status)
       THEN Result(400, "Validation Error", "Invalid input data", <<>>)
     ELSE IF got.err # "" THEN GetByIDFailed(got.err, calls)
     ELSE IF got.todo.UserID # userID THEN TodoNotFound(calls)
     ELSE IF fail = "UpdateStatus"
       THEN Result(500, "Internal Server Error", "Failed to update todo status",
                   Append(calls, update))
     ELSE [Result(200, "", "Todo status updated successfully", Append(calls, update)) EXCEPT
             !.rows = (todos \ {got.todo}) \cup {[got.todo EXCEPT !.Status = body.Status]}]

\* One request: the middleware of the group, then the handler of the route
Serve(method, path, header, body, query, handler, auth, r) ==
  /\ resp = NoResponse
  /\ last = NoCall
  /\ Route(method, path) = handler
  /\ resp' = IF auth.status # 0
               THEN [NoResponse EXCEPT
                       !.method = method, !.path = path, !.header = header,
                       !.body = body, !.query = query,
                       !.status = auth.status, !.error = "Unauthorized",
                       !.message = auth.message]
               ELSE [method |-> method, path |-> path, header |-> header,
                     body |-> body, query |-> query, handler |-> handler,
                     userID |-> auth.userID, username |-> auth.username,
                     sessionID |-> auth.sessionID,
                     status |-> r.status, error |-> r.error, message |-> r.message,
                     calls |-> r.calls, todo |-> r.todo, total |-> r.total,
                     limit |-> r.limit, offset |-> r.offset]
  /\ todos' = IF auth.status # 0 THEN todos ELSE r.rows
  /\ nextTodoID' = IF auth.status # 0 THEN nextTodoID ELSE r.nextID
  /\ UNCHANGED <<users, nextUserID, sessions, nextSessionID, now, issued, revoked, last,
                 reg, run, bcryptCost>>

\* POST /todos
CreateTodo(header, body, fail) ==
  LET auth == AuthMiddleware(header)
  IN /\ nextTodoID <= MaxTodos
     /\ Serve("POST", <<>>, header, body, NoQuery, "CreateTodo", auth,
              CreateTodoResult(auth.userID, body, fail))

\* GET /todos
GetTodos(header, query, fail) ==
  LET auth == AuthMiddleware(header)
  IN Serve("GET", <<>>, header, NoBody, query, "GetTodos", auth,
           GetTodosResult(auth.userID, query, fail))

\* GET /todos/<id>
GetTodo(header, id, db, fail) ==
  LET auth == AuthMiddleware(header)
  IN Serve("GET", <<id>>, header, NoBody, NoQuery, "GetTodo", auth,
           GetTodoResult(auth.userID, id, db, fail))

\* PUT /todos/<id>
UpdateTodo(header, id, body, db, fail) ==
  LET auth == AuthMiddleware(header)
  IN Serve("PUT", <<id>>, header, body, NoQuery, "UpdateTodo", auth,
           UpdateTodoResult(auth.userID, id, body, db, fail))

\* DELETE /todos/<id>
DeleteTodo(header, id, db, fail) ==
  LET auth == AuthMiddleware(header)
  IN Serve("DELETE", <<id>>, header, NoBody, NoQuery, "DeleteTodo", auth,
           DeleteTodoResult(auth.userID, id, db, fail))

\* PATCH /todos/<id>/status
UpdateTodoStatus(header, id, body, db, fail) ==
  LET auth == AuthMiddleware(header)
  IN Serve("PATCH", <<id, "status">>, header, body, NoQuery, "UpdateTodoStatus", auth,
           UpdateTodoStatusResult(auth.userID, id, body, db, fail))

\* The response goes out
Reply ==
  /\ resp # NoResponse
  /\ resp' = NoResponse
  /\ UNCHANGED <<users, nextUserID, sessions, nextSessionID, now, issued, revoked, last,
                 reg, run, bcryptCost, todos, nextTodoID>>

----------------------------------------------------------------------------
\* The response of the last call goes out
Respond ==
  /\ last # NoCall
  /\ last' = NoCall
  /\ UNCHANGED <<users, nextUserID, sessions, nextSessionID, now, issued, revoked, reg, run, bcryptCost, todos, nextTodoID, resp>>

----------------------------------------------------------------------------
Init ==
  /\ users = {}
  /\ nextUserID = 1
  /\ sessions = << >>
  /\ nextSessionID = 1
  /\ now = 0
  /\ issued = {}
  /\ revoked = {}
  /\ last = NoCall
  /\ reg = [w \in Workers |-> Idle]
  /\ run = [w \in Workers |-> NotRunning]
  /\ bcryptCost = DefaultCost
  /\ todos = {}
  /\ nextTodoID = 1
  /\ resp = NoResponse

Next ==
  \/ \E req \in RegisterRequests, fail \in RegisterFaults : Register(req, fail)
  \/ \E req \in LoginRequests, fail \in LoginFaults : Login(req, fail)
  \/ \E req \in LoginByEmailRequests, fail \in LoginByEmailFaults : LoginByEmail(req, fail)
  \/ \E tok \in TokenInputs, fail \in RefreshFaults : RefreshToken(tok, fail)
  \/ \E tok \in TokenInputs, fail \in LogoutFaults : Logout(tok, fail)
  \/ \E tok \in TokenInputs : ValidateAccessToken(tok)
  \/ Tick
  \/ Respond

Spec == Init /\ [][Next]_vars

\* Concurrent registration
NextConc ==
  \/ \E w \in Workers, req \in RegisterRequests, fail \in {"none", "ExistsByUsername"} :
       RegisterBegin(w, req, fail)
  \/ \E w \in Workers, fail \in {"none", "ExistsByEmail"} : RegisterEmail(w, fail)
  \/ \E w \in Workers, fail \in {"none", "hashPassword", "Create"} : RegisterInsert(w, fail)
  \/ \E w \in Workers : RegisterReturn(w)

SpecConc == Init /\ [][NextConc]_vars

\* Sessions written to the store from outside the service
NextStore ==
  \/ \E req \in RegisterRequests : req.Email = "" /\ Register(req, "none")
  \/ \E req \in LoginRequests : Login(req, "none")
  \/ \E session \in SessionWrites : SessionStoreSet(session)
  \/ \E tok \in TokenInputs, fail \in RefreshFaults : RefreshToken(tok, fail)
  \/ Tick
  \/ Respond

SpecStore == Init /\ [][NextStore]_vars

\* Concurrent RefreshToken and Logout, on the refresh tokens of the logins
RefreshTokens == {t \in issued : t.type = TokenTypeRefresh}

NextRace ==
  \/ \E req \in RegisterRequests : req.Email = "" /\ Register(req, "none")
  \/ \E req \in LoginRequests : Login(req, "none")
  \/ Respond
  \/ TickIdle
  \/ \E w \in Workers, tok \in RefreshTokens : RefreshBegin(w, tok)
  \/ \E w \in Workers : RefreshGet(w)
  \/ \E w \in Workers : RefreshIssue(w)
  \/ \E w \in Workers, tok \in RefreshTokens : LogoutBegin(w, tok)
  \/ \E w \in Workers : LogoutDelete(w)
  \/ \E w \in Workers : RunReturn(w)

SpecRace == Init /\ [][NextRace]_vars

\* The token codec on its own
NextCodec ==
  \/ \E tok \in CodecTokens : ValidateAccessToken(tok)
  \/ Tick
  \/ Respond

SpecCodec == Init /\ [][NextCodec]_vars

\* Forced logout of a user between logins and refreshes
NextForce ==
  \/ \E req \in RegisterRequests : req.Email = "" /\ Register(req, "none")
  \/ \E req \in LoginRequests : Login(req, "none")
  \/ \E userID \in UserIDs, fail \in DeleteUserSessionsFaults, skipped \in SUBSET SessionIDs :
       DeleteUserSessions(userID, fail, skipped)
  \/ \E tok \in RefreshTokens : RefreshToken(tok, "none")
  \/ Tick
  \/ Respond

SpecForce == Init /\ [][NextForce]_vars

\* Users deleted from the credential store while their sessions live on
NextDelete ==
  \/ \E req \in RegisterRequests : req.Email = "" /\ Register(req, "none")
  \/ \E req \in LoginRequests : Login(req, "none")
  \/ \E id \in UserIDs : UserDelete(id)
  \/ \E tok \in RefreshTokens : RefreshToken(tok, "none")
  \/ Tick
  \/ Respond

SpecDelete == Init /\ [][NextDelete]_vars

\* The todo API
NextTodo ==
  \/ \E header \in Headers, body \in Bodies, fail \in {"none", "Create"} :
       CreateTodo(header, body, fail)
  \/ \E header \in Headers, query \in Queries, fail \in {"none", "GetByUserID"} :
       GetTodos(header, query, fail)
  \/ \E header \in Headers, id \in PathIDs, db \in TodoDBs, fail \in {"none", "GetByID"} :
       GetTodo(header, id, db, fail)
  \/ \E header \in Headers, id \in TodoIDs, body \in Bodies, db \in TodoDBs,
        fail \in {"none", "GetByID", "Update"} :
       UpdateTodo(header, id, body, db, fail)
  \/ \E header \in Headers, id \in TodoIDs, db \in TodoDBs,
        fail \in {"none", "GetByID", "Delete"} :
       DeleteTodo(header, id, db, fail)
  \/ \E header \in Headers, id \in TodoIDs, body \in Bodies, db \in TodoDBs,
        fail \in {"none", "GetByID", "UpdateStatus"} :
       UpdateTodoStatus(header, id, body, db, fail)
  \/ Reply

SpecTodo == Init /\ [][NextTodo]_vars

\* The session store on its own
NextRedis ==
  \/ \E session \in StoreSessions, expiration \in Expirations, fail \in BOOLEAN :
       RedisSet(session, expiration, fail)
  \/ \E sessionID \in SessionIDs, fail \in BOOLEAN : RedisGet(sessionID, fail)
  \/ \E sessionID \in SessionIDs, fail \in BOOLEAN : RedisDelete(sessionID, fail)
  \/ Tick
  \/ Respond

SpecRedis == Init /\ [][NextRedis]_vars

\* Registration while the bcrypt cost is being set
NextCost ==
  \/ NextConc
  \/ \E cost \in {MinCost, DefaultCost} : SetBcryptCost(cost)

SpecCost == Init /\ [][NextCost]_vars

----------------------------------------------------------------------------
\* Properties

\* A call that has just returned / that returns in this step
Called(op) == last.op = op
Returns(op) == last = NoCall /\ last'.op = op

InCalls(c, calls) == \E i \in 1..Len(calls) : calls[i] = c

SessionStoreCalls == {"Set", "Get", "Delete", "DeleteUserSessions"}

NoSessionStoreCall(calls) == \A c \in SessionStoreCalls : ~InCalls(c, calls)

\* The refresh token of a login whose session a Logout has deleted
RevokedRefresh(tok) ==
  tok \in issued /\ tok.type = TokenTypeRefresh /\ tok.sessionId \in revoked

\* C1, as claimed: once Logout(RT) has deleted the session, RefreshToken(RT)
\* fails with "invalid session" or "session expired" and returns no token.
C1_Original ==
  (Called("RefreshToken") /\ RevokedRefresh(last.token)) =>
     /\ last.err \in {"invalid session", "session expired"}
     /\ last.accessToken = EmptyToken

\* C1, amended: once Logout(RT) has deleted the session, every RefreshToken(RT)
\* fails and returns no access token: with "invalid session" while RT itself
\* is unexpired, with "invalid refresh token" once RT's expiry has passed.
C1_RevokedRefreshFails ==
  (Called("RefreshToken") /\ RevokedRefresh(last.token)) =>
     /\ last.accessToken = EmptyToken
     /\ last.err = IF now < FromUnix(last.token.exp)
                     THEN "invalid session" ELSE "invalid refresh token"

C1_Witness ==
  /\ Called("RefreshToken") /\ RevokedRefresh(last.token)
  /\ last.err = "invalid session"
  /\ \E k \in DOMAIN sessions : k # last.token.sessionId

Observable(r) ==
  [err |-> r.err, accessToken |-> r.accessToken, refreshToken |-> r.refreshToken,
   userID |-> r.userID]

InvalidCredentials ==
  [err |-> "invalid credentials", accessToken |-> EmptyToken,
   refreshToken |-> EmptyToken, userID |-> 0]

UnknownUser(req) == GetByUsername(req.Username) = NoUser

WrongPassword(req) ==
  /\ GetByUsername(req.Username) # NoUser
  /\ ~verifyPassword(GetByUsername(req.Username).Password, req.Password)

\* C3: a Login whose user lookup fails and a Login with a wrong password
\* return the same thing, nil and "invalid credentials", and neither calls
\* the session store.
C3_LoginFailuresIndistinguishable ==
  /\ (Called("Login") /\ last.cause \in {"user not found", "failed to get user", "wrong password"}) =>
        /\ Observable(last) = InvalidCredentials
        /\ NoSessionStoreCall(last.calls)
  /\ \A r1, r2 \in LoginRequests :
        (UnknownUser(r1) /\ WrongPassword(r2)) =>
           /\ Observable(LoginResult(r1, "none")) = Observable(LoginResult(r2, "none"))
           /\ LoginResult(r1, "none").store = sessions
           /\ LoginResult(r2, "none").store = sessions

C3_Witness ==
  /\ Called("Login") /\ last.cause = "wrong password"
  /\ \E r \in LoginRequests : UnknownUser(r)

\* C4: a successful Login stores exactly one session, under an id no session
\* or token had before, active, owned by the authenticated user, expiring
\* (as a session and as a key) RefreshExpiry from now, and returns two
\* different non-empty tokens that carry that session id and the user.
C4_LoginStoresOneSession ==
  [][(Returns("Login") /\ last'.err = "") =>
       LET new == DOMAIN sessions' \ DOMAIN sessions
           at == last'.accessToken
           rt == last'.refreshToken
       IN /\ Cardinality(new) = 1
          /\ \A k \in DOMAIN sessions : k \in DOMAIN sessions' /\ sessions'[k] = sessions[k]
          /\ \A sid \in new :
               /\ sid \notin revoked
               /\ \A t \in issued : t.sessionId # sid
               /\ sessions'[sid].value.ID = sid
               /\ sessions'[sid].value.IsActive
               /\ sessions'[sid].value.UserID = last'.userID
               /\ sessions'[sid].value.ExpiresAt = now + RefreshExpiry
               /\ sessions'[sid].expireAt = now + RefreshExpiry
               /\ at.sessionId = sid /\ rt.sessionId = sid
          /\ \E u \in users :
               /\ u.Username = last'.name /\ u.ID = last'.userID
               /\ at.userId = u.ID /\ at.username = u.Username
               /\ rt.userId = u.ID /\ rt.username = u.Username
          /\ at # EmptyToken /\ rt # EmptyToken /\ at # rt
          /\ at.type = TokenTypeAccess /\ rt.type = TokenTypeRefresh
    ]_vars

C4_Witness ==
  /\ Called("Login") /\ last.err = ""
  /\ Cardinality(DOMAIN sessions) = 2

\* C5, as claimed: a Login or LoginByEmail that returns an error leaves the
\* session store as it was.
C5_FailedLoginStoresNothing ==
  [][((Returns("Login") \/ Returns("LoginByEmail")) /\ last'.err # "") =>
       sessions' = sessions]_vars

\* C6: whatever the interleaving of concurrent Register calls, no two rows
\* of the users table share a username or a non-empty email, and no two
\* calls that have both succeeded asked for the same username or the same
\* non-empty email.
C6_RegisterUnique ==
  /\ \A u1, u2 \in users :
        u1 # u2 => /\ u1.Username # u2.Username
                   /\ (u1.Email # "" => u1.Email # u2.Email)
                   /\ u1.ID # u2.ID
  /\ \A w1, w2 \in Workers :
        (w1 # w2 /\ reg[w1].pc = "done" /\ reg[w2].pc = "done"
           /\ reg[w1].err = "" /\ reg[w2].err = "") =>
          /\ reg[w1].req.Username # reg[w2].req.Username
          /\ (reg[w1].req.Email # "" => reg[w1].req.Email # reg[w2].req.Email)

\* Two calls for one username both passed the existence checks; the insert
\* of the later one was refused.
C6_Witness ==
  \E w1, w2 \in Workers :
    /\ w1 # w2
    /\ reg[w1].pc = "done" /\ reg[w1].err = ""
    /\ reg[w2].pc = "done" /\ reg[w2].cause = "duplicate key"
    /\ reg[w1].req.Username = reg[w2].req.Username

\* C7: when the username check of a Register call reports an existing user,
\* the call fails with "username already exists" whatever its email, after
\* the one call ExistsByUsername, and the users table is unchanged.
C7_DuplicateUsername ==
  [][(Returns("Register") /\ ExistsByUsername(last'.name)
        /\ last'.err # "failed to check username") =>
       /\ last'.err = "username already exists"
       /\ last'.calls = <<"ExistsByUsername">>
       /\ users' = users
    ]_vars

C7_Witness ==
  /\ Called("Register") /\ last.err = "username already exists"
  /\ last.email # "" /\ ~ExistsByEmail(last.email)

\* C8: with a free username, a Register call whose non-empty email the email
\* check reports as existing fails with "email already exists" and creates
\* no user; with an empty email ExistsByEmail is not called and the call goes
\* on to Create.
C8_DuplicateEmail ==
  [][(Returns("Register") /\ ~ExistsByUsername(last'.name)
        /\ last'.err # "failed to check username") =>
       /\ (last'.email # "" /\ ExistsByEmail(last'.email)
             /\ last'.err # "failed to check email") =>
            /\ last'.err = "email already exists"
            /\ last'.calls = <<"ExistsByUsername", "ExistsByEmail">>
            /\ users' = users
       /\ last'.email = "" =>
            /\ ~InCalls("ExistsByEmail", last'.calls)
            /\ last'.err # "failed to hash password" => InCalls("Create", last'.calls)
            /\ last'.err = "" =>
                 \E u \in users' \ users :
                    /\ users' = users \cup {u}
                    /\ u.Username = last'.name /\ u.Email = "" /\ u.ID = last'.userID
    ]_vars

C8_Witness ==
  /\ Called("Register") /\ last.err = "email already exists"
  /\ ~ExistsByUsername(last.name)

C10_LogoutAlwaysSucceeds ==
  Called("Logout") => last.err = ""

C10_Witness ==
  /\ Called("Logout") /\ last.err = ""
  /\ last.cause = "failed to delete session"

\* C11: Logout is idempotent.  A Logout with a refresh token whose session an
\* earlier Logout has already deleted returns without error, like the first,
\* and leaves the session store exactly as the first call left it; the
\* "session not found" of its delete stays inside the call.
C11_LogoutIdempotent ==
  [][(Returns("Logout") /\ RevokedRefresh(last'.token)) =>
       /\ last'.err = ""
       /\ sessions' = sessions
       /\ revoked' = revoked
    ]_vars

C11_Witness ==
  /\ Called("Logout") /\ RevokedRefresh(last.token)
  /\ last.err = "" /\ last.cause = "session not found"
  /\ last.calls = <<"Delete">>

\* C12: Logout deletes at most the session named by its refresh token.  With
\* the empty string, or a token that does not validate as a refresh token,
\* it makes no session-store call and the store is unchanged; otherwise every
\* session other than the token's stays stored as it was, and every refresh
\* token of another session that RefreshToken accepted before the Logout is
\* accepted after it.
C12_LogoutDeletesOnlyItsSession ==
  [][Returns("Logout") =>
       LET tok == last'.token
           v == validateToken(tok, TokenTypeRefresh, now)
       IN /\ (tok = EmptyToken \/ v.err # "") =>
               /\ sessions' = sessions
               /\ NoSessionStoreCall(last'.calls)
          /\ DOMAIN sessions' \subseteq DOMAIN sessions
          /\ DOMAIN sessions \ DOMAIN sessions' \subseteq {v.claims.SessionID}
          /\ \A k \in DOMAIN sessions' : sessions'[k] = sessions[k]
          /\ \A t \in issued :
               (t.sessionId # tok.sessionId /\ RefreshTokenResult(t, "none").err = "") =>
                  (RefreshTokenResult(t, "none").err = "")'
    ]_vars

\* One user has two sessions; one was logged out, the other is still stored
C12_Witness ==
  /\ Called("Logout") /\ last.cause = "" /\ last.calls = <<"Delete">>
  /\ ~storeHas(sessions, last.token.sessionId)
  /\ \E t \in issued :
       /\ t.userId = last.token.userId /\ t.sessionId # last.token.sessionId
       /\ storeHas(sessions, t.sessionId)
       /\ RefreshTokenResult(t, "none").err = ""

\* Claims a token was made from, and the tokens the service can make
ClaimsOf(tok) ==
  [UserID |-> tok.userId, Username |-> tok.username,
   SessionID |-> tok.sessionId, Type |-> tok.type]

\* C13: round trip.  For every non-empty user id, username and session id
\* and every instant of issue, the token made by generateAccessToken,
\* presented to ValidateAccessToken before its expiry, is accepted with the
\* same user id, username and session id and the type "access"; so is the
\* access token a successful RefreshToken has just returned.
C13_RoundTrip ==
  /\ \A uid \in UserIDs, name \in Usernames, sid \in SessionIDs, t0 \in 0..now :
        LET tok == generateAccessToken(uid, name, sid, t0)
        IN now < FromUnix(Unix(t0 + AccessExpiry)) =>
             /\ ValidateAccessTokenResult(tok).err = ""
             /\ ValidateAccessTokenResult(tok).claims =
                  [UserID |-> uid, Username |-> name, SessionID |-> sid,
                   Type |-> TokenTypeAccess]
  /\ (Called("RefreshToken") /\ last.err = "") =>
        /\ ValidateAccessTokenResult(last.accessToken).err = ""
        /\ ValidateAccessTokenResult(last.accessToken).claims =
             [ClaimsOf(last.token) EXCEPT !.Type = TokenTypeAccess]
  /\ (Called("ValidateAccessToken") /\ last.token \in issued
         /\ last.token.type = TokenTypeAccess /\ now < FromUnix(last.token.exp)) =>
        /\ last.err = ""
        /\ last.claims = ClaimsOf(last.token)

\* The access token of the second session of the second user, validated some
\* time after it was issued
C13_Witness ==
  /\ Called("ValidateAccessToken") /\ last.err = ""
  /\ last.claims.UserID = 2 /\ last.claims.SessionID = 2
  /\ last.claims.Type = TokenTypeAccess
  /\ now > FromUnix(last.token.iat)

\* C14: token-type confusion.  A refresh token with a valid signature that is
\* unexpired is rejected by ValidateAccessToken with "invalid token type" and
\* no claims.
C14_RefreshTokenIsNoAccessToken ==
  /\ \A uid \in UserIDs, name \in Usernames, sid \in SessionIDs, t0 \in 0..now :
        LET tok == generateRefreshToken(uid, name, sid, t0)
        IN now < FromUnix(Unix(t0 + RefreshExpiry)) =>
             /\ ValidateAccessTokenResult(tok).err = "invalid token type"
             /\ ValidateAccessTokenResult(tok).claims = NoClaims
  /\ (Called("ValidateAccessToken") /\ last.token.type = TokenTypeRefresh
         /\ jwtParse(last.token, now) = "") =>
        /\ last.err = "invalid token type"
        /\ last.claims = NoClaims

C14_Witness ==
  /\ Called("ValidateAccessToken") /\ last.err = "invalid token type"
  /\ last.token \in issued /\ last.token.type = TokenTypeRefresh
  /\ storeHas(sessions, last.token.sessionId)

\* C15: RefreshToken answers every token that validateToken rejects as a
\* refresh token (no token, bad signature, expired, an access token) with
\* the one error "invalid refresh token" and without a session-store call,
\* and a valid token whose session the store does not return with "invalid
\* session"; neither returns an access token.
C15_RefreshTokenErrors ==
  /\ Called("RefreshToken") =>
        LET v == validateToken(last.token, TokenTypeRefresh, now)
        IN /\ v.err # "" =>
                /\ last.err = "invalid refresh token"
                /\ last.calls = <<>>
                /\ last.accessToken = EmptyToken
           /\ (v.err = "" /\ ~storeHas(sessions, v.claims.SessionID)) =>
                /\ last.err = "invalid session"
                /\ last.accessToken = EmptyToken
  /\ \A tok \in TokenInputs :
        validateToken(tok, TokenTypeRefresh, now).err = "" =>
           /\ RefreshTokenResult(tok, "Get").err = "invalid session"
           /\ RefreshTokenResult(tok, "Get").accessToken = EmptyToken

\* An unexpired access token of a stored session, presented as refresh token
C15_Witness ==
  /\ Called("RefreshToken") /\ last.err = "invalid refresh token"
  /\ last.token \in issued /\ last.token.type = TokenTypeAccess
  /\ jwtParse(last.token, now) = ""
  /\ storeHas(sessions, last.token.sessionId)

\* C17: a successful RefreshToken returns an access token with the user id,
\* username and session id of the refresh token and no refresh token, calls
\* neither Set nor Delete, leaves the stored sessions (expiry included) as
\* they were, and the same refresh token is accepted again.
C17_RefreshLeavesSession ==
  [][(Returns("RefreshToken") /\ last'.err = "") =>
       /\ ClaimsOf(last'.accessToken) =
            [ClaimsOf(last'.token) EXCEPT !.Type = TokenTypeAccess]
       /\ last'.accessToken.form = "jws"
       /\ last'.refreshToken = EmptyToken
       /\ ~InCalls("Set", last'.calls) /\ ~InCalls("Delete", last'.calls)
       /\ sessions' = sessions
       /\ issued' = issued /\ revoked' = revoked
       /\ \A t \in TokenInputs :
            t = last'.token => (RefreshTokenResult(t, "none").err = "")'
    ]_vars

\* A refresh in a later second than the login
C17_Witness ==
  /\ Called("RefreshToken") /\ last.err = ""
  /\ last.accessToken.iat > last.token.iat
  /\ storeHas(sessions, last.token.sessionId)

\* C18, as claimed: the access token RefreshToken returns differs from the
\* access token of the Login that opened the session, whenever the refresh
\* happens.
C18_RefreshedTokenDiffers ==
  (Called("RefreshToken") /\ last.err = "") =>
     \A t \in issued :
        (t.type = TokenTypeAccess /\ t.sessionId = last.token.sessionId) =>
           last.accessToken # t

\* C19: expiry boundary.  At the instant of its exp a correctly signed token
\* is rejected as expired, and a token is accepted only while the clock is
\* strictly before its exp.
C19_ExpiryBoundary ==
  /\ \A tok \in issued :
        now = FromUnix(tok.exp) =>
           /\ jwtParse(tok, now) = "token is expired"
           /\ validateToken(tok, tok.type, now) =
                [err |-> "failed to parse token", claims |-> NoClaims]
  /\ \A tok \in TokenInputs, type \in {TokenTypeAccess, TokenTypeRefresh} :
        validateToken(tok, type, now).err = "" => now < FromUnix(tok.exp)
  /\ (Called("ValidateAccessToken") /\ last.err = "") => now < FromUnix(last.token.exp)

C19_Witness ==
  /\ Called("ValidateAccessToken") /\ last.err = "failed to parse token"
  /\ last.token \in issued /\ last.token.type = TokenTypeAccess
  /\ now = FromUnix(last.token.exp)

\* The session a refresh token names is stored but inactive or past its expiry
SessionLapsed(tok) ==
  /\ validateToken(tok, TokenTypeRefresh, now).err = ""
  /\ storeHas(sessions, tok.sessionId)
  /\ \/ ~storeGet(sessions, tok.sessionId).IsActive
     \/ now > storeGet(sessions, tok.sessionId).ExpiresAt

\* C16: RefreshToken with a valid, unexpired refresh token whose stored
\* session is inactive or has its expiry in the past fails with "session
\* expired" whenever the store returns the session, and never returns an
\* access token.
C16_LapsedSessionRefused ==
  /\ \A tok \in TokenInputs, fail \in RefreshFaults \ {"Get"} :
        SessionLapsed(tok) =>
           /\ RefreshTokenResult(tok, fail).err = "session expired"
           /\ RefreshTokenResult(tok, fail).accessToken = EmptyToken
  /\ (Called("RefreshToken") /\ SessionLapsed(last.token)) =>
        /\ last.err \in {"session expired", "invalid session"}
        /\ last.accessToken = EmptyToken

\* An active session whose expiry is past, its key and its token both alive
C16_Witness ==
  /\ Called("RefreshToken") /\ last.err = "session expired"
  /\ storeGet(sessions, last.token.sessionId).IsActive
  /\ now > storeGet(sessions, last.token.sessionId).ExpiresAt

C21_NoInstanceWrite ==
  [][(\E w \in Workers : reg[w].pc \in {"email", "create"}) =>
       bcryptCost' = bcryptCost]_vars

\* The fault of LoginByEmail that corresponds to a fault of Login
ByEmailFault(fail) == IF fail = "GetByUsername" THEN "GetByEmail" ELSE fail

\* C22: for every stored user with an email, every password and every
\* failure of a collaborator, Login by the user's username and LoginByEmail
\* by the user's email return the same error, the same tokens and user id,
\* and leave the same session store; a LoginByEmail that succeeds has stored
\* exactly one new session, of that user, and one that fails with "invalid
\* credentials" or a store failure has stored none.
C22_LoginByEmailLikeLogin ==
  [][/\ \A u \in users, pw \in Passwords, fail \in LoginFaults :
          (~u.Deleted /\ u.Email # "") =>
             LET a == LoginResult([Username |-> u.Username, Password |-> pw], fail)
                 b == LoginByEmailResult([Email |-> u.Email, Password |-> pw],
                                         ByEmailFault(fail))
             IN /\ Observable(a) = Observable(b)
                /\ a.cause = b.cause
                /\ a.store = b.store
                /\ a.newID = b.newID
     /\ Returns("LoginByEmail") =>
          LET new == DOMAIN sessions' \ DOMAIN sessions
          IN /\ \A k \in DOMAIN sessions :
                  k \in DOMAIN sessions' /\ sessions'[k] = sessions[k]
             /\ last'.err = "" =>
                  /\ Cardinality(new) = 1
                  /\ \A sid \in new : sessions'[sid].value.UserID = last'.userID
                  /\ \E u \in users : u.Email = last'.email /\ u.ID = last'.userID
             /\ last'.err \in {"invalid credentials", "failed to create session"} =>
                  new = {}
    ]_vars

C22_Witness ==
  /\ Called("LoginByEmail") /\ last.err = ""
  /\ \E t \in issued :
       /\ t.userId = last.userID /\ t.sessionId # last.refreshToken.sessionId
       /\ storeHas(sessions, t.sessionId)

\* A claim the token lacks
ClaimMissing(tok) == tok.userId = 0 \/ tok.username = "" \/ tok.sessionId = 0

\* C25: validateToken checks in the order parse (signature, expiry), type,
\* required claims.  A token of the expected type that lacks the user id,
\* the username or the session id is rejected with "missing required
\* claims"; one of another type that also lacks a claim with "invalid token
\* type"; one that does not parse with the parse error whatever its type and
\* claims; and ValidateAccessToken returns what validateToken returns.
C25_ValidationOrder ==
  /\ \A tok \in CodecTokens, type \in {TokenTypeAccess, TokenTypeRefresh} :
        LET v == validateToken(tok, type, now)
        IN /\ jwtParse(tok, now) # "" => v.err = "failed to parse token"
           /\ (jwtParse(tok, now) = "" /\ tok.type # type) => v.err = "invalid token type"
           /\ (jwtParse(tok, now) = "" /\ tok.type = type /\ ClaimMissing(tok)) =>
                v.err = "missing required claims"
           /\ v.err # "" => v.claims = NoClaims
  /\ Called("ValidateAccessToken") =>
        /\ last.err = validateToken(last.token, TokenTypeAccess, now).err
        /\ last.claims = validateToken(last.token, TokenTypeAccess, now).claims
        /\ (jwtParse(last.token, now) = "" /\ last.token.type # TokenTypeAccess) =>
             last.err = "invalid token type"
        /\ (jwtParse(last.token, now) = "" /\ last.token.type = TokenTypeAccess
               /\ ClaimMissing(last.token)) =>
             last.err = "missing required claims"

\* A refresh token without a user id, presented as access token
C25_Witness ==
  /\ Called("ValidateAccessToken") /\ last.err = "invalid token type"
  /\ jwtParse(last.token, now) = ""
  /\ last.token.type = TokenTypeRefresh /\ last.token.userId = 0

\* C26: the session store.  Set writes the session under its id, replacing
\* what was there, and a Get of the id then returns it; an entry stays as it
\* was written until its time to live has elapsed or it is deleted, and is
\* gone once the time has elapsed; Get returns the entry or, when there is
\* none, "session not found", and changes nothing; Delete of an absent id
\* fails with "session not found" and changes nothing, Delete of a present
\* id removes that entry and no other.
C26_SessionStoreContract ==
  [][/\ (Returns("Set") /\ last'.err = "") =>
          /\ \A k \in DOMAIN sessions \ {last'.sessionID} :
               k \in DOMAIN sessions' /\ sessions'[k] = sessions[k]
          /\ DOMAIN sessions' = DOMAIN sessions \cup {last'.sessionID}
          /\ \A sid \in SessionIDs :
               sid = last'.sessionID =>
                  (RedisGetResult(sid, FALSE) = [err |-> "", session |-> last.session])'
     /\ (Returns("Get") /\ last'.err # "failed to get session") =>
          /\ sessions' = sessions
          /\ IF last'.sessionID \in DOMAIN sessions
               THEN last'.err = "" /\ last'.session = sessions[last'.sessionID].value
               ELSE last'.err = "session not found" /\ last'.session = NoSession
     /\ (Returns("Delete") /\ last'.err # "failed to delete session") =>
          IF last'.sessionID \in DOMAIN sessions
            THEN /\ last'.err = ""
                 /\ DOMAIN sessions' = DOMAIN sessions \ {last'.sessionID}
                 /\ \A k \in DOMAIN sessions' : sessions'[k] = sessions[k]
            ELSE /\ last'.err = "session not found"
                 /\ sessions' = sessions
     /\ now' # now =>
          /\ \A k \in DOMAIN sessions :
               IF now' > sessions[k].expireAt
                 THEN k \notin DOMAIN sessions'
                 ELSE k \in DOMAIN sessions' /\ sessions'[k] = sessions[k]
          /\ DOMAIN sessions' \subseteq DOMAIN sessions
     /\ \A k \in DOMAIN sessions : ~(now > sessions[k].expireAt)
    ]_vars

\* A Get in the last instant of the entry's time to live returns the
\* session written over an earlier one
C26_Witness ==
  /\ Called("Get") /\ last.err = ""
  /\ now > 0 /\ now = sessions[last.sessionID].expireAt
  /\ last.session.UserID = 2 /\ ~last.session.IsActive
  /\ last.session.ExpiresAt > sessions[last.sessionID].expireAt

\* C27: a DeleteUserSessions(u) that returns without error leaves no session
\* of u in the store and every other user's session as it was, and
\* RefreshToken with a refresh token issued to u before it fails with
\* "invalid session".
C27_ForcedLogout ==
  [][(Returns("DeleteUserSessions") /\ last'.err = "") =>
       /\ \A k \in DOMAIN sessions' : sessions'[k].value.UserID # last'.userID
       /\ \A k \in DOMAIN sessions :
            sessions[k].value.UserID # last'.userID =>
               k \in DOMAIN sessions' /\ sessions'[k] = sessions[k]
       /\ \A tok \in RefreshTokens :
            tok.userId = last'.userID =>
               (RefreshTokenResult(tok, "none").err = "invalid session")'
    ]_vars

\* C29, as claimed: RefreshToken returns success, "invalid refresh token" or
\* "invalid session" and nothing else.
C29_Original ==
  Called("RefreshToken") =>
     last.err \in {"", "invalid refresh token", "invalid session"}

\* C29, amended: every session stored by a login is active and expires no
\* earlier than the refresh token issued with it, and RefreshToken never
\* returns "session expired": it returns success, "invalid refresh token",
\* "invalid session" or, when signing fails, "failed to generate access token".
C29_NeverSessionExpired ==
  /\ \A k \in DOMAIN sessions :
       /\ sessions[k].value.IsActive
       /\ \A tok \in issued :
            (tok.type = TokenTypeRefresh /\ tok.sessionId = k) =>
               /\ sessions[k].value.ExpiresAt >= FromUnix(tok.exp)
               /\ sessions[k].expireAt >= FromUnix(tok.exp)
  /\ Called("RefreshToken") =>
       last.err \in {"", "invalid refresh token", "invalid session",
                     "failed to generate access token"}

\* A refresh succeeds in the last instant of a refresh token that expires
\* before its session does
C29_Witness ==
  /\ Called("RefreshToken") /\ last.err = ""
  /\ now = FromUnix(last.token.exp) - 1
  /\ sessions[last.token.sessionId].value.ExpiresAt > FromUnix(last.token.exp)

\* The refresh token of a login whose user has since been deleted
DeletedUser(tok) ==
  /\ tok \in issued /\ tok.type = TokenTypeRefresh
  /\ \E u \in users : u.ID = tok.userId /\ u.Deleted

\* C30: RefreshToken makes no credential-store call; with the unexpired
\* refresh token of a deleted user whose session is still stored it succeeds,
\* the new access token carries the deleted user's id and username, and
\* ValidateAccessToken accepts it.
C30_RefreshIgnoresCredentialStore ==
  Called("RefreshToken") =>
     /\ \A i \in 1..Len(last.calls) : last.calls[i] = "Get"
     /\ (DeletedUser(last.token) /\ now < FromUnix(last.token.exp)
           /\ storeHas(sessions, last.token.sessionId)) =>
          /\ last.err = ""
          /\ last.accessToken.type = TokenTypeAccess
          /\ last.accessToken.userId = last.token.userId
          /\ last.accessToken.username = last.token.username
          /\ ValidateAccessTokenResult(last.accessToken).err = ""
          /\ ValidateAccessTokenResult(last.accessToken).claims.UserID = last.token.userId

\* A deleted user refreshes while another user is still registered
C30_Witness ==
  /\ Called("RefreshToken") /\ DeletedUser(last.token) /\ last.err = ""
  /\ ValidateAccessTokenResult(last.accessToken).err = ""
  /\ \E u \in users : ~u.Deleted
  /\ now > 0

\* The header is "Bearer " followed by a token ValidateAccessToken accepts
Accepted(header) ==
  /\ header.scheme = "Bearer" /\ header.token # EmptyToken
  /\ ValidateAccessTokenResult(header.token).err = ""

IdHandlers == {"GetTodo", "UpdateTodo", "DeleteTodo", "UpdateTodoStatus"}

\* C23: a request to a todo route runs the route's handler only if its
\* Authorization header is "Bearer <token>" with a token ValidateAccessToken
\* accepts, and then with the userID, username and sessionID of the token's
\* claims; any other request is answered 401 by the middleware, no handler
\* runs, the repository is not called and no todo changes.
C23_AuthenticationRequired ==
  [][\A header \in Headers :
       (resp = NoResponse /\ resp' # NoResponse /\ resp'.header = header) =>
          IF Accepted(header)
            THEN /\ resp'.handler = Route(resp'.method, resp'.path)
                 /\ resp'.handler # ""
                 /\ resp'.userID = header.token.userId
                 /\ resp'.username = header.token.username
                 /\ resp'.sessionID = header.token.sessionId
                 /\ resp'.userID # 0 /\ resp'.username # "" /\ resp'.sessionID # 0
                 /\ resp'.message # "Authentication required"
            ELSE /\ resp'.status = 401 /\ resp'.error = "Unauthorized"
                 /\ resp'.handler = ""
                 /\ resp'.calls = <<>> /\ resp'.todo = NoTodo
                 /\ todos' = todos /\ nextTodoID' = nextTodoID
    ]_vars

\* bob's token lets his request through to the handler, which updates his todo
C23_Witness ==
  /\ resp.handler = "UpdateTodo" /\ resp.status = 200
  /\ resp.userID = 2 /\ resp.username = "bob" /\ resp.sessionID = 2
  /\ resp.todo.UserID = 2 /\ resp.todo.Status = "completed"

\* The query of a GET /todos is one the claim calls invalid
InvalidQuery(query) ==
  \/ query.limit > 100
  \/ (query.status # "" /\ ~IsValidStatus(query.status))
  \/ (query.priority # "" /\ ~IsValidPriority(query.priority))

\* C24: GET /todos answers a limit above 100, an unknown status and an
\* unknown priority with 400 "Validation Error" and no repository call, and
\* hands a valid limit and offset unchanged to GetByUserID.
C24_GetTodosValidates ==
  resp.handler = "GetTodos" =>
     IF InvalidQuery(resp.query)
       THEN resp.status = 400 /\ resp.error = "Validation Error" /\ resp.calls = <<>>
       ELSE (resp.query.status = "" /\ resp.query.priority = "") =>
               resp.calls = <<RepoCall("GetByUserID", resp.userID, "",
                                       resp.query.limit, resp.query.offset)>>

\* The handler refuses the body before it looks the todo up
BodyRefused(handler, body) ==
  \/ handler = "UpdateTodo"
       /\ (~body.parses \/ (body.Status # "" /\ ~IsValidStatus(body.Status)))
  \/ handler = "UpdateTodoStatus" /\ (~body.parses \/ ~IsValidStatus(body.Status))

\* The request that was just served went to a todo of another user
ForeignTodo(t) ==
  /\ resp = NoResponse /\ resp'.handler \in IdHandlers
  /\ resp'.path[1] = t.ID /\ t.UserID # resp'.userID

\* C28, as claimed: GetTodo, UpdateTodo, DeleteTodo and UpdateTodoStatus on
\* another user's todo answer 404 "Todo not found" and call neither Update
\* nor Delete nor UpdateStatus.
C28_Original ==
  [][\A t \in todos :
       (ForeignTodo(t) /\ ~t.Deleted) =>
          /\ resp'.status = 404 /\ resp'.message = "Todo not found"
          /\ \A i \in 1..Len(resp'.calls) : resp'.calls[i].fn = "GetByID"
    ]_vars

\* C28, amended: on another user's todo the four handlers never call Update,
\* Delete or UpdateStatus, change no todo and return none; they answer 400
\* when UpdateTodo or UpdateTodoStatus refuses the body, which happens before
\* the todo is looked up, and otherwise 404 "Todo not found" or, when the
\* lookup itself fails, 500 "Failed to get todo".  No request of a user
\* changes a todo of another user.
C28_OwnershipIsolation ==
  [][/\ \A t \in todos :
          ForeignTodo(t) =>
             /\ \A i \in 1..Len(resp'.calls) : resp'.calls[i].fn = "GetByID"
             /\ todos' = todos
             /\ resp'.todo = NoTodo
             /\ IF BodyRefused(resp'.handler, resp'.body)
                  THEN resp'.status = 400 /\ resp'.calls = <<>>
                  ELSE \/ resp'.status = 404 /\ resp'.message = "Todo not found"
                       \/ resp'.status = 500 /\ resp'.message = "Failed to get todo"
     /\ \A t \in todos :
          (resp = NoResponse /\ resp' # NoResponse /\ t.UserID # resp'.userID) =>
             t \in todos'
    ]_vars

\* alice asks to complete bob's pending todo and is told there is none
C28_Witness ==
  /\ resp.handler = "UpdateTodoStatus" /\ resp.status = 404
  /\ resp.userID = 1 /\ resp.body.Status = "completed"
  /\ \E t \in todos :
       t.ID = resp.path[1] /\ t.UserID = 2 /\ ~t.Deleted /\ t.Status = "pending"

====
